---------------------------- MODULE Spec2Model ----------------------------
(***************************************************************************)
(* Stream_collector: the retry/redownload controller                       *)
(* (auto_test_redownload.py), the validation engine                        *)
(* (continuous_validator.py), the duration check (video_validator.py) and  *)
(* the downloader (hotstar_auto_downloader.py): its playlist parser, its   *)
(* response handler and its ffmpeg pipeline.                               *)
(*                                                                         *)
(* Durations of the sync check are in tenths of a second, durations of the *)
(* duration check in whole seconds; comparisons against fractional         *)
(* thresholds are cross-multiplied so that they stay exact.                *)
(***************************************************************************)
EXTENDS Integers, Sequences, FiniteSets, TLC

VARIABLES
    \* ---- retry controller (auto_test_redownload.py) ----
    argc,          \* len(sys.argv) of the controller process
    pc,            \* position of main()/run_test_cycle
    max_retries,   \* AutoTester.max_retries
    attempt,       \* loop variable of run_test_cycle
    files,         \* downloads/*.mp4: set of [name, content, mtime]
    files_before,  \* names globbed before the downloader ran
    video_path,    \* the artifact of the current attempt (a name)
    clock,         \* source of fresh names, contents and modification times
    result,        \* return value of run_test_cycle: "none", "true", "false"
    exit_code,     \* status of sys.exit, -1 while running
    launches,      \* number of run_downloader calls so far
    history,       \* one record per finished attempt
    renamed,       \* one record per rename of a failed artifact
    tool_missing_at,   \* the attempt whose downloader found ffmpeg missing, or 0
    acquisition_failed,  \* download_with_ffmpeg returned False in the
                   \* downloader run of the current attempt
    slept,         \* parity of the passes of the downloader's monitoring loop
    \* ---- check_audio_video_sync (continuous_validator.py) ----
    sync_info,     \* what get_video_info returned for the file
    sync_result,   \* the dict the check returned, Pending before the call
    \* ---- validate_duration (video_validator.py) ----
    dur_args,      \* video_info, the playlist and tolerance_percent
    dur_result,    \* the dict the check returned, Pending before the call
    \* ---- comprehensive_validation (continuous_validator.py) ----
    vpc,           \* the test comprehensive_validation is about to run
    has_video_info,\* results['video_info'] was set
    tests,         \* results['tests']
    order,         \* the checks called so far, in call order
    summary,       \* results['summary'], Pending until computed
    \* ---- parse_master_playlist (hotstar_auto_downloader.py) ----
    parse_args,    \* the arguments: content (a list of lines) and base_url
    parse_result,  \* [variants |-> the list returned], Pending before the call
    \* ---- monitor_network (hotstar_auto_downloader.py) ----
    mpc,           \* position of each monitor_network task
    murl,          \* variant_url of each task (the best variant of its playlist)
    downloading_urls,  \* HotstarDownloader.downloading_urls
    mresponse,     \* url of the response of each task
    video_m3u8_urls,   \* HotstarDownloader.video_m3u8_urls
    audio_m3u8_urls,   \* HotstarDownloader.audio_m3u8_urls
    self_headers,  \* HotstarDownloader.headers
    auto_download_call,  \* the arguments of each task's call of auto_download
    now,           \* datetime.now(), in seconds
    mstamp,        \* timestamp of each task that goes on to acquire
    captured_playlists, \* best variant of the playlist_info each task appended
    \* ---- download_with_ffmpeg (hotstar_auto_downloader.py) ----
    ffmpeg_installed,  \* whether the ffmpeg binary can be started
    apc,           \* the process download_with_ffmpeg is waiting for
    audio_urls,    \* the argument audio_urls (<<>> for None)
    variant_tracks,  \* variant['audio_tracks'] of the auto_download that made
                   \* the call (<<>> for a call from elsewhere)
    aidx,          \* idx + 1 of the audio loop
    temp_audio_files,  \* the tracks whose download exited with status 0
    temp_files,    \* the files that exist in downloads/temp
    produced,      \* the intermediates a download with status 0 wrote
    output,        \* the file at output_path
    trace,         \* starts and exits of the external processes
    merged,        \* validation_result, Pending before
    aresult,       \* return value: "none", "true", "false"
    araised,       \* the exception download_with_ffmpeg caught
    controller_report, \* the validation run of the retry controller
    \* ---- validate_download (auto_test_redownload.py) ----
    cpc,           \* where run_test_cycle is: "loop", "validating", ...
    cattempt,      \* attempt of the for loop
    cartifact,     \* stem of video_path
    reports_dir,   \* the *_validation.json files in validation_reports/
    decisions,     \* one record per return of check_validation_result
    \* ---- monitor_downloads (continuous_validator.py) ----
    wpc,           \* where the monitor loop is
    downloads,     \* size of each *.mp4 path of downloads/, Missing if none
    validated_files,  \* self.validated_files
    cycle_files,   \* new_files of the current cycle
    widx,          \* position of video_file in new_files
    size1,         \* the first size sample of video_file
    runs,          \* number of comprehensive validations started per path
    saved,         \* the paths a report was saved for
    skipped,       \* the paths the current cycle examined and left out
    due,           \* the paths the previous cycle left out, still present
    \* ---- validate_video_file (video_validator.py) ----
    file_args,     \* the file, what ffprobe and ffmpeg give for it
    file_result,   \* validation_result, Pending before
    \* ---- the header block of download_with_ffmpeg ----
    header_args,   \* headers and one entry of audio_urls
    header_block   \* the '-headers' arguments built from them

rvars == <<argc, pc, max_retries, attempt, files, files_before, video_path, clock,
           result, exit_code, launches, history, renamed, tool_missing_at,
           acquisition_failed, slept>>

svars == <<sync_info, sync_result>>

dvars == <<dur_args, dur_result>>

vvars == <<vpc, has_video_info, tests, order, summary>>

pvars == <<parse_args, parse_result>>

mvars == <<mpc, murl, downloading_urls, mresponse, video_m3u8_urls,
           audio_m3u8_urls, self_headers, auto_download_call, now, mstamp,
           captured_playlists>>

avars == <<ffmpeg_installed, apc, audio_urls, variant_tracks, aidx,
           temp_audio_files, temp_files, produced, output, trace, merged,
           aresult, araised, controller_report>>

hvars == <<header_args, header_block>>

cvars == <<cpc, cattempt, cartifact, reports_dir, decisions>>

wvars == <<wpc, downloads, validated_files, cycle_files, widx, size1, runs,
           saved, skipped, due>>

fvars == <<file_args, file_result>>

vars == <<rvars, svars, dvars, vvars, pvars, mvars, avars, hvars, cvars, wvars, fvars>>

\* What a step of one component leaves alone
RFrame == UNCHANGED <<svars, dvars, vvars, pvars, mvars, avars, hvars, cvars, wvars, fvars>>
SFrame == UNCHANGED <<rvars, dvars, vvars, pvars, mvars, avars, hvars, cvars, wvars, fvars>>
DFrame == UNCHANGED <<rvars, svars, vvars, pvars, mvars, avars, hvars, cvars, wvars, fvars>>
VFrame == UNCHANGED <<rvars, svars, dvars, pvars, mvars, avars, hvars, cvars, wvars, fvars>>
PFrame == UNCHANGED <<rvars, svars, dvars, vvars, mvars, avars, hvars, cvars, wvars, fvars>>
MFrame == UNCHANGED <<rvars, svars, dvars, vvars, pvars, avars, hvars, cvars, wvars, fvars>>
AFrame == UNCHANGED <<rvars, svars, dvars, vvars, pvars, mvars, hvars, cvars, wvars, fvars>>
HFrame == UNCHANGED <<rvars, svars, dvars, vvars, pvars, mvars, avars, cvars, wvars, fvars>>
CFrame == UNCHANGED <<rvars, svars, dvars, vvars, pvars, mvars, avars, hvars, wvars, fvars>>
WFrame == UNCHANGED <<rvars, svars, dvars, vvars, pvars, mvars, avars, hvars, cvars, fvars>>
FFrame == UNCHANGED <<rvars, svars, dvars, vvars, pvars, mvars, avars, hvars, cvars, wvars>>

-----------------------------------------------------------------------------
(* Bounds of the model *)

MaxRetries == 3
MaxNewFiles == 2
MaxStreams == 3
MaxSegments == 2
MaxActual == 62
MaxErrorLines == 2
MaxLines == 4
MaxAttrs == 5
MaxCallbacks == 3
MaxTracks == 2
MaxHeaders == 3
MaxSeconds == 1

(* Program constants *)

DEFAULT_MAX_RETRIES == 3
SYNC_ISSUE_TENTHS == 20
SYNC_WARNING_TENTHS == 5
DEFAULT_TOLERANCE_PERCENT == 5
SHORT_DURATION_SECONDS == 60
ERROR_LINES_SHOWN == 5
MIN_SAMPLE_RATE == 44100
AUDIO_MISMATCH_TENTHS == 10
FRAME_MISMATCH_PERCENT == 5

-----------------------------------------------------------------------------
(* Retry controller *)

NoPath == <<>>

\* set(self.downloads_dir.glob("*.mp4"))
Glob(fs) == {f.name : f \in fs}

\* range(1, self.max_retries + 1): the loop body runs for attempt a
AttemptInRange_off(a, n) == a <= n + 1
AttemptInRange(a, n) == a <= n

\* "if attempt < self.max_retries: ... continue / else: return False"
MayRetry_never(a, n) == FALSE
MayRetry(a, n) == a < n

\* files_after - files_before
NewFiles(after, before) == after \ before

\* find_latest_download: newest modification time first, None when empty
FindLatest(fs) ==
    IF fs = {} THEN NoPath
    ELSE (CHOOSE f \in fs : \A g \in fs : g.mtime <= f.mtime).name

\* video_path.stem + f"_FAILED_attempt{attempt}" + video_path.suffix
FailedName(name, a) == Append(name, a)

\* Path.rename (POSIX): the source disappears, the target holds its content
Rename(fs, src, dst) ==
    LET f == CHOOSE x \in fs : x.name = src
    IN  {x \in fs : x.name # src /\ x.name # dst}
            \cup {[name |-> dst, content |-> f.content, mtime |-> f.mtime]}

\* sys.exit(0 if success else 1)
ExitStatus_zero(success) == 0
ExitStatus(success) == IF success THEN 0 ELSE 1

\* What one run of the downloader leaves in downloads/: n files under new
\* timestamped names, and possibly one existing output written again.
DownloaderWrites(fs, n, over) ==
    LET kept  == {f \in fs : f.name # over}
        again == IF over = NoPath THEN {}
                 ELSE {[name |-> over, content |-> clock, mtime |-> clock]}
        fresh == {[name |-> <<clock + i>>, content |-> clock + i,
                   mtime |-> clock + i] : i \in 1..n}
    IN  kept \cup again \cup fresh

Originals(fs) == {f.name : f \in {g \in fs : Len(g.name) = 1}}

\* A run writes its output under new names (auto_download) or writes an
\* output name of an earlier run again (generate_filename), or writes nothing.
Rewritten(fs, n) == {NoPath} \cup (IF n = 0 THEN Originals(fs) ELSE {})

\* download_with_ffmpeg catches FileNotFoundError and returns False: without
\* the ffmpeg binary a run of the downloader writes no output
CanWrite(installed, n, over) == installed \/ (n = 0 /\ over = NoPath)

\* A run that reaches download_with_ffmpeg without ffmpeg prints
\* 'ffmpeg not found'; a run that sees no playlist does not get that far
ToolMissingSeen(installed, seen_at, a) ==
    IF ~installed /\ seen_at = 0 THEN {0, a} ELSE {seen_at}

\* Whether download_with_ffmpeg returned False in a run.  auto_download drops
\* the value and run() ends on an interrupt only: a run that wrote no output
\* may have failed or not have acquired at all, a run that wrote one may have
\* rejected it, and a run that found ffmpeg missing has failed.
AcquisitionFailed(tool_missing) == IF tool_missing THEN {TRUE} ELSE BOOLEAN

RInit ==
    /\ argc \in 1..3
    /\ pc = "start"
    /\ max_retries = 0
    /\ attempt = 0
    /\ files \in {{}, {[name |-> <<0>>, content |-> 0, mtime |-> 0]}}
    /\ files_before = {}
    /\ video_path = NoPath
    /\ clock = 1
    /\ result = "none"
    /\ exit_code = -1
    /\ launches = 0
    /\ history = <<>>
    /\ renamed = <<>>
    /\ tool_missing_at = 0
    /\ acquisition_failed = FALSE
    /\ slept = 0

\* main(): argument handling and construction of the AutoTester
MainUsage ==
    /\ pc = "start"
    /\ argc < 2
    /\ pc' = "exited"
    /\ exit_code' = 1
    /\ UNCHANGED <<argc, max_retries, attempt, files, files_before, video_path,
                   clock, result, launches, history, renamed>>
    /\ UNCHANGED <<tool_missing_at, acquisition_failed, slept>>
    /\ RFrame

\* int(sys.argv[2]) raises ValueError: the interpreter ends with status 1
MainBadArgument ==
    /\ pc = "start"
    /\ argc > 2
    /\ pc' = "exited"
    /\ exit_code' = 1
    /\ UNCHANGED <<argc, max_retries, attempt, files, files_before, video_path,
                   clock, result, launches, history, renamed>>
    /\ UNCHANGED <<tool_missing_at, acquisition_failed, slept>>
    /\ RFrame

\* max_retries = int(sys.argv[2]) if len(sys.argv) > 2 else 3
MainStart(n) ==
    /\ pc = "start"
    /\ ~(argc < 2)
    /\ max_retries' = IF argc > 2 THEN n ELSE DEFAULT_MAX_RETRIES
    /\ attempt' = 1
    /\ pc' = "loop"
    /\ UNCHANGED <<argc, files, files_before, video_path, clock, result,
                   exit_code, launches, history, renamed>>
    /\ UNCHANGED <<tool_missing_at, acquisition_failed, slept>>
    /\ RFrame

\* head of the for loop, up to the call of run_downloader
StartAttempt ==
    /\ pc = "loop"
    /\ IF AttemptInRange(attempt, max_retries)
       THEN /\ files_before' = Glob(files)
            /\ launches' = launches + 1
            /\ pc' = "downloading"
            /\ UNCHANGED result
       ELSE /\ result' = "false"
            /\ pc' = "returned"
            /\ UNCHANGED <<files_before, launches>>
    /\ UNCHANGED <<argc, max_retries, attempt, files, video_path, clock, exit_code,
                   history, renamed>>
    /\ UNCHANGED tool_missing_at
    /\ acquisition_failed' = (acquisition_failed /\ pc' # "downloading")
    /\ UNCHANGED slept
    /\ RFrame

\* the end of an attempt that found nothing to validate
GiveUpOrRetry(rec) ==
    /\ history' = Append(history, rec)
    /\ IF MayRetry(attempt, max_retries)
       THEN /\ attempt' = attempt + 1
            /\ pc' = "loop"
            /\ UNCHANGED result
       ELSE /\ result' = "false"
            /\ pc' = "returned"
            /\ UNCHANGED attempt

\* HotstarDownloader.run: 'while True: await asyncio.sleep(1)', one pass.
\* Nothing in the loop looks at the acquisitions or ends it.
MonitorSleep ==
    /\ pc = "downloading"
    /\ slept' = 1 - slept
    /\ UNCHANGED <<argc, pc, max_retries, attempt, files, files_before,
                   video_path, clock, result, exit_code, launches, history,
                   renamed, tool_missing_at, acquisition_failed>>
    /\ RFrame

\* The downloader was interrupted from outside and run_downloader returned:
\* the download result and the artifact location
DownloaderExit(ok, n, over) ==
    /\ pc = "downloading"
    /\ CanWrite(ffmpeg_installed, n, over)
    /\ tool_missing_at' \in ToolMissingSeen(ffmpeg_installed, tool_missing_at,
                                            attempt)
    /\ acquisition_failed' \in AcquisitionFailed(tool_missing_at' = attempt)
    /\ slept' = 0
    /\ files' = DownloaderWrites(files, n, over)
    /\ clock' = clock + n + 1
    /\ IF ~ok
       THEN /\ GiveUpOrRetry([attempt |-> attempt, dl |-> FALSE,
                              found |-> FALSE, passed |-> FALSE,
                              artifact |-> NoPath, content |-> -1])
            /\ UNCHANGED video_path
       ELSE LET new == NewFiles(Glob(files'), files_before)
                latest == FindLatest(files')
            IN  IF new = {}
                THEN IF latest # NoPath
                     THEN /\ video_path' = latest
                          /\ pc' = "validating"
                          /\ UNCHANGED <<attempt, result, history>>
                     ELSE /\ GiveUpOrRetry([attempt |-> attempt, dl |-> TRUE,
                                            found |-> FALSE, passed |-> FALSE,
                                            artifact |-> NoPath,
                                            content |-> -1])
                          /\ UNCHANGED video_path
                ELSE /\ video_path' \in new
                     /\ pc' = "validating"
                     /\ UNCHANGED <<attempt, result, history>>
    /\ UNCHANGED <<argc, max_retries, files_before, exit_code, launches, renamed>>
    /\ RFrame

\* validate_download returned
ValidationExit(passed) ==
    /\ pc = "validating"
    /\ LET f == CHOOSE x \in files : x.name = video_path
           rec == [attempt |-> attempt, dl |-> TRUE, found |-> TRUE,
                   passed |-> passed, artifact |-> video_path,
                   content |-> f.content]
       IN  /\ history' = Append(history, rec)
           /\ IF passed
              THEN /\ result' = "true"
                   /\ pc' = "returned"
                   /\ UNCHANGED <<attempt, files, renamed>>
              ELSE IF MayRetry(attempt, max_retries)
                   THEN /\ files' = Rename(files, video_path,
                                           FailedName(video_path, attempt))
                        /\ renamed' = Append(renamed,
                               [attempt |-> attempt, from |-> video_path,
                                to |-> FailedName(video_path, attempt),
                                content |-> f.content])
                        /\ attempt' = attempt + 1
                        /\ pc' = "loop"
                        /\ UNCHANGED result
                   ELSE /\ result' = "false"
                        /\ pc' = "returned"
                        /\ UNCHANGED <<attempt, files, renamed>>
    /\ UNCHANGED <<argc, max_retries, files_before, video_path, clock, exit_code,
                   launches>>
    /\ UNCHANGED <<tool_missing_at, acquisition_failed, slept>>
    /\ RFrame

\* sys.exit(0 if success else 1)
MainExit ==
    /\ pc = "returned"
    /\ exit_code' = ExitStatus(result = "true")
    /\ pc' = "exited"
    /\ UNCHANGED <<argc, max_retries, attempt, files, files_before, video_path,
                   clock, result, launches, history, renamed>>
    /\ UNCHANGED <<tool_missing_at, acquisition_failed, slept>>
    /\ RFrame

RNext ==
    \/ MainUsage
    \/ MainBadArgument
    \/ \E n \in -1..MaxRetries : MainStart(n)
    \/ StartAttempt
    \/ MonitorSleep
    \/ \E ok \in BOOLEAN, n \in 0..MaxNewFiles :
          \E over \in Rewritten(files, n) : DownloaderExit(ok, n, over)
    \/ \E passed \in BOOLEAN : ValidationExit(passed)
    \/ MainExit


-----------------------------------------------------------------------------
(* Helpers shared by the checks *)

Pending == [pending |-> TRUE]

Abs(x) == IF x < 0 THEN -x ELSE x

\* dict.get(key, default)
Get(d, key, default) == IF key \in DOMAIN d THEN d[key] ELSE default

Has(seq, x) == \E i \in 1..Len(seq) : seq[i] = x

SeqsUpTo(S, n) == UNION {[1..k -> S] : k \in 0..n}

-----------------------------------------------------------------------------
(* check_audio_video_sync; stream durations in tenths of a second *)

USUAL_AUDIO_CODECS == {"aac", "mp3", "opus", "vorbis"}

\* if duration_diff > 2.0
SyncIssue_ge(d) == d >= SYNC_ISSUE_TENTHS
SyncIssue(d) == d > SYNC_ISSUE_TENTHS

\* elif duration_diff > 0.5
SyncWarning(d) == d > SYNC_WARNING_TENTHS

IsVideo(st) == st.codec_type = "video"
IsAudio(st) == st.codec_type = "audio"

UnusualCodecWarnings(audio) ==
    [i \in 1..Len(SelectSeq(audio, LAMBDA a : a.codec_name \notin USUAL_AUDIO_CODECS))
        |-> "Unusual audio codec"]

check_audio_video_sync(info) ==
    IF ~info.ok
    THEN [valid |-> FALSE, issues |-> <<"Failed to get video info">>]
    ELSE LET video_streams == SelectSeq(info.streams, IsVideo)
             audio_streams == SelectSeq(info.streams, IsAudio)
             both == video_streams # <<>> /\ audio_streams # <<>>
             duration_diff ==
                 IF both
                 THEN Abs(video_streams[1].duration - audio_streams[1].duration)
                 ELSE 0
             issues ==
                 (IF video_streams = <<>>
                  THEN <<"No video stream found">> ELSE <<>>)
                 \o (IF audio_streams = <<>>
                     THEN <<"No audio stream found">> ELSE <<>>)
                 \o (IF both /\ SyncIssue(duration_diff)
                     THEN <<"Audio/Video sync mismatch">> ELSE <<>>)
             warnings ==
                 (IF both /\ ~SyncIssue(duration_diff)
                          /\ SyncWarning(duration_diff)
                  THEN <<"Minor sync difference">> ELSE <<>>)
                 \o UnusualCodecWarnings(audio_streams)
         IN  [valid |-> Len(issues) = 0,
              issues |-> issues,
              warnings |-> warnings,
              video_streams |-> Len(video_streams),
              audio_streams |-> Len(audio_streams),
              video_duration |-> IF video_streams # <<>>
                                 THEN video_streams[1].duration ELSE 0,
              audio_duration |-> IF audio_streams # <<>>
                                 THEN audio_streams[1].duration ELSE 0]

\* Probed durations the sync check is tried on (tenths of a second)
SyncDurations == {0, 2, 5, 6, 20, 21, 50}

ProbedStreams ==
    [codec_type : {"video"}, codec_name : {"h264"}, duration : SyncDurations]
    \cup [codec_type : {"audio"}, codec_name : {"aac", "ac3"},
          duration : SyncDurations]

ProbeFailure == [ok |-> FALSE, streams |-> <<>>]

SIdle == sync_info = ProbeFailure /\ sync_result = [idle |-> TRUE]

SInit ==
    /\ sync_info \in {ProbeFailure}
           \cup [ok : {TRUE}, streams : SeqsUpTo(ProbedStreams, MaxStreams)]
    /\ sync_result = Pending

SyncCheck ==
    /\ sync_result = Pending
    /\ sync_result' = check_audio_video_sync(sync_info)
    /\ UNCHANGED sync_info
    /\ SFrame

-----------------------------------------------------------------------------
(* validate_duration; durations in whole seconds *)

NoDuration == [known |-> FALSE, seconds |-> 0]

RECURSIVE SumSeq(_)
SumSeq(q) == IF q = <<>> THEN 0 ELSE q[1] + SumSeq(Tail(q))

\* get_expected_duration_from_playlist: the #EXTINF durations summed, None
\* when the playlist cannot be read or the sum is not positive
get_expected_duration_from_playlist(playlist) ==
    IF ~playlist.readable THEN NoDuration
    ELSE IF SumSeq(playlist.extinf) > 0
         THEN [known |-> TRUE, seconds |-> SumSeq(playlist.extinf)]
         ELSE NoDuration

\* "if expected_duration:" is false for None and for 0.0
Truthy(e) == e.known /\ e.seconds # 0

\* duration_diff > tolerance, tolerance = expected * (percent / 100.0)
ExceedsTolerance_ge(d, e, p) == 100 * d >= e * p
ExceedsTolerance(d, e, p) == 100 * d > e * p

\* duration_diff > (tolerance / 2)
ExceedsHalfTolerance(d, e, p) == 200 * d > e * p

validate_duration(video_info, expected_duration, tolerance_percent) ==
    IF ~video_info.has_format
    THEN [valid |-> FALSE, issues |-> <<"No format information found">>,
          warnings |-> <<>>]
    ELSE LET actual_duration == video_info.duration IN
         IF actual_duration <= 0
         THEN [valid |-> FALSE, actual_duration |-> actual_duration,
               issues |-> <<"Video duration is zero or negative">>,
               warnings |-> <<>>]
         ELSE LET e == expected_duration.seconds
                  duration_diff == Abs(actual_duration - e)
                  over == Truthy(expected_duration)
                          /\ ExceedsTolerance(duration_diff, e, tolerance_percent)
                  half == Truthy(expected_duration) /\ ~over
                          /\ ExceedsHalfTolerance(duration_diff, e,
                                                  tolerance_percent)
                  issues == IF over THEN <<"Duration mismatch">> ELSE <<>>
                  warnings ==
                      (IF half THEN <<"Duration slightly off">> ELSE <<>>)
                      \o (IF actual_duration < SHORT_DURATION_SECONDS
                          THEN <<"Video duration is very short">> ELSE <<>>)
              IN  [valid |-> Len(issues) = 0,
                   actual_duration |-> actual_duration,
                   expected_duration |-> expected_duration,
                   duration_diff |->
                       IF Truthy(expected_duration)
                       THEN [known |-> TRUE, seconds |-> duration_diff]
                       ELSE NoDuration,
                   issues |-> issues,
                   warnings |-> warnings]

SegmentSeconds == {0, 10, 20}

Playlists ==
    {[readable |-> FALSE, extinf |-> <<>>]}
    \cup [readable : {TRUE}, extinf : SeqsUpTo(SegmentSeconds, MaxSegments)]

TolerancePercents == {0, DEFAULT_TOLERANCE_PERCENT, 2 * DEFAULT_TOLERANCE_PERCENT}

DIdle == dur_args = [idle |-> TRUE] /\ dur_result = [idle |-> TRUE]

DInit ==
    /\ dur_args \in [video_info : [has_format : BOOLEAN,
                                   duration : -1..MaxActual],
                     playlist : Playlists,
                     tolerance_percent : TolerancePercents]
    /\ dur_result = Pending

\* validate_video_file, test 4: the expected duration and the duration check
DurationCheck ==
    /\ dur_result = Pending
    /\ dur_result' = validate_duration(
                         dur_args.video_info,
                         get_expected_duration_from_playlist(dur_args.playlist),
                         dur_args.tolerance_percent)
    /\ UNCHANGED dur_args
    /\ DFrame


-----------------------------------------------------------------------------
(* check_video_corruption, check_frame_continuity, check_audio_continuity *)

Min(a, b) == IF a < b THEN a ELSE b

\* A line of ffmpeg's error stream: blank, or a decode error
ErrorLineKinds == {" ", "error"}

NotBlank(line) == line # " "

\* error_output is modelled as its lines; the empty string has none
check_video_corruption(p) ==
    IF p.raises
    THEN [valid |-> FALSE, issues |-> <<"Corruption check failed">>,
          warnings |-> <<>>]
    ELSE IF p.returncode = 0 /\ p.error_output = <<>>
    THEN [valid |-> TRUE, issues |-> <<>>, warnings |-> <<>>]
    ELSE LET error_lines == SelectSeq(p.error_output, NotBlank)
             issues ==
                 IF error_lines # <<>>
                 THEN <<"Corruption detected">>
                      \o SubSeq(error_lines, 1,
                                Min(Len(error_lines), ERROR_LINES_SHOWN))
                 ELSE <<>>
         IN  [valid |-> FALSE, issues |-> issues, warnings |-> <<>>]

CorruptionInputs ==
    [raises : {TRUE}, returncode : {1}, error_output : {<<>>}]
    \cup [raises : {FALSE}, returncode : {0, 1},
          error_output : SeqsUpTo(ErrorLineKinds, MaxErrorLines)]

\* expected_frames = int(duration * fps), fps = num / den
ExpectedFrames(duration, num, den) == (duration * num) \div den

check_frame_continuity(p) ==
    IF p.returncode # 0
    THEN [valid |-> FALSE, issues |-> <<"Frame continuity check failed">>,
          warnings |-> <<>>]
    ELSE IF p.raises
    THEN [valid |-> FALSE, issues |-> <<"Frame check error">>,
          warnings |-> <<>>]
    ELSE LET issues == IF p.nb_frames = 0
                       THEN <<"No frames detected">> ELSE <<>>
             ratio == p.nb_frames > 0 /\ p.nb_packets > 0
                      /\ 2 * p.nb_packets > 3 * p.nb_frames
             expected == IF p.den > 0
                         THEN ExpectedFrames(p.duration, p.num, p.den) ELSE 0
             mismatch == p.den > 0 /\ expected > 0
                         /\ 100 * Abs(p.nb_frames - expected)
                                > FRAME_MISMATCH_PERCENT * expected
             warnings ==
                 (IF ratio THEN <<"High packet/frame ratio">> ELSE <<>>)
                 \o (IF mismatch THEN <<"Frame count mismatch">> ELSE <<>>)
         IN  [valid |-> Len(issues) = 0, issues |-> issues,
              warnings |-> warnings, nb_frames |-> p.nb_frames,
              nb_packets |-> p.nb_packets, duration |-> p.duration]

\* ffprobe results of the frame check; duration in whole seconds
FrameInputs ==
    [returncode : {1}, raises : {FALSE}, nb_frames : {0}, nb_packets : {0},
     duration : {0}, num : {0}, den : {0}]
    \cup [returncode : {0}, raises : {TRUE}, nb_frames : {0},
          nb_packets : {0}, duration : {0}, num : {0}, den : {0}]
    \cup [returncode : {0}, raises : {FALSE}, nb_frames : {0, 100},
          nb_packets : {100, 151}, duration : {4, 5}, num : {0, 25},
          den : {0, 1}]

check_audio_continuity(p) ==
    IF p.returncode # 0
    THEN [valid |-> FALSE, issues |-> <<"Audio continuity check failed">>,
          warnings |-> <<>>]
    ELSE IF p.raises
    THEN [valid |-> FALSE, issues |-> <<"Audio check error">>,
          warnings |-> <<>>]
    ELSE IF p.streams = 0
    THEN [valid |-> FALSE,
          issues |-> <<"No audio stream for continuity check">>,
          warnings |-> <<>>]
    ELSE LET warnings ==
                 (IF p.audio_duration > 0 /\ p.format_duration > 0
                     /\ Abs(p.audio_duration - p.format_duration)
                            > AUDIO_MISMATCH_TENTHS
                  THEN <<"Audio duration mismatch with container">>
                  ELSE <<>>)
                 \o (IF p.sample_rate < MIN_SAMPLE_RATE
                     THEN <<"Low sample rate">> ELSE <<>>)
             issues == IF p.channels < 1
                       THEN <<"No audio channels detected">> ELSE <<>>
         IN  [valid |-> Len(issues) = 0, issues |-> issues,
              warnings |-> warnings, audio_duration |-> p.audio_duration,
              sample_rate |-> p.sample_rate, channels |-> p.channels]

\* ffprobe results of the audio check; durations in tenths of a second
AudioInputs ==
    [returncode : {1}, raises : {FALSE}, streams : {0}, audio_duration : {0},
     format_duration : {0}, sample_rate : {0}, channels : {0}]
    \cup [returncode : {0}, raises : {TRUE}, streams : {0},
          audio_duration : {0}, format_duration : {0}, sample_rate : {0},
          channels : {0}]
    \cup [returncode : {0}, raises : {FALSE}, streams : {0},
          audio_duration : {0}, format_duration : {0}, sample_rate : {0},
          channels : {0}]
    \cup [returncode : {0}, raises : {FALSE}, streams : {1},
          audio_duration : {1000, 1011}, format_duration : {1000},
          sample_rate : {22050, 48000}, channels : {0, 2}]

-----------------------------------------------------------------------------
(* comprehensive_validation *)

NoTests == [k \in {} |-> Pending]

\* results['tests'][name] = r
Put(t, name, r) ==
    [k \in DOMAIN t \cup {name} |-> IF k = name THEN r ELSE t[k]]

\* all(results['tests'][test].get('valid', False) for test in ...)
AllValid_clean(t) ==
    /\ \A k \in DOMAIN t : Get(t[k], "valid", FALSE)
    /\ \A k \in DOMAIN t : Get(t[k], "warnings", <<>>) = <<>>
AllValid(t) == \A k \in DOMAIN t : Get(t[k], "valid", FALSE)

RECURSIVE SumLen(_, _, _)
SumLen(t, keys, field) ==
    IF keys = {} THEN 0
    ELSE LET k == CHOOSE x \in keys : TRUE
         IN  Len(Get(t[k], field, <<>>)) + SumLen(t, keys \ {k}, field)

\* sum(len(results['tests'][test].get('issues', [])) for test in ...)
TotalIssues(t) == SumLen(t, DOMAIN t, "issues")

\* sum(len(results['tests'][test].get('warnings', [])) for test in ...)
TotalWarnings(t) == SumLen(t, DOMAIN t, "warnings")

Summarize(t) ==
    [all_tests_passed |-> AllValid(t),
     total_issues |-> TotalIssues(t),
     total_warnings |-> TotalWarnings(t)]

\* The test that follows test `step`, whose result was r: every test runs
AfterTest_stop(step, r) ==
    IF ~Get(r, "valid", FALSE) THEN "summary"
    ELSE CASE step = "info" -> "sync"
           [] step = "sync" -> "corruption"
           [] step = "corruption" -> "frames"
           [] step = "frames" -> "audio"
           [] step = "audio" -> "summary"
AfterTest(step, r) ==
    CASE step = "info" -> "sync"
      [] step = "sync" -> "corruption"
      [] step = "corruption" -> "frames"
      [] step = "frames" -> "audio"
      [] step = "audio" -> "summary"

\* Probe results the sync test of a validation run is tried on
ValidationProbes ==
    {ProbeFailure}
    \cup [ok : {TRUE},
          streams : {<<>>,
                     <<[codec_type |-> "video", codec_name |-> "h264",
                        duration |-> 1200]>>}
                    \cup {<<[codec_type |-> "video", codec_name |-> "h264",
                             duration |-> 1200],
                            [codec_type |-> "audio", codec_name |-> c,
                             duration |-> a]>> :
                          c \in {"aac", "ac3"}, a \in {1200, 1218, 1250}}]

VIdle ==
    /\ vpc = "idle" /\ has_video_info = FALSE /\ tests = NoTests
    /\ order = <<>> /\ summary = [idle |-> TRUE]

VInit ==
    /\ vpc = "info" /\ has_video_info = FALSE /\ tests = NoTests
    /\ order = <<>> /\ summary = Pending

\* Test 1: get_video_info
GetVideoInfo(ok) ==
    /\ vpc = "info"
    /\ IF ok
       THEN /\ has_video_info' = TRUE
            /\ tests' = tests
            /\ vpc' = AfterTest("info", [valid |-> TRUE])
       ELSE LET r == [valid |-> FALSE,
                      issues |-> <<"Failed to retrieve info">>]
            IN  /\ has_video_info' = FALSE
                /\ tests' = Put(tests, "info", r)
                /\ vpc' = AfterTest("info", r)
    /\ UNCHANGED <<order, summary>>
    /\ VFrame

RunTest(name, r) ==
    /\ tests' = Put(tests, name, r)
    /\ order' = Append(order, name)
    /\ vpc' = AfterTest(name, r)
    /\ UNCHANGED <<has_video_info, summary>>
    /\ VFrame

\* Test 2: check_audio_video_sync, which probes the file again
TestSync(info) ==
    /\ vpc = "sync"
    /\ RunTest("sync", check_audio_video_sync(info))

\* Test 3: check_video_corruption
TestCorruption(p) ==
    /\ vpc = "corruption"
    /\ RunTest("corruption", check_video_corruption(p))

\* Test 4: check_frame_continuity
TestFrames(p) ==
    /\ vpc = "frames"
    /\ RunTest("frames", check_frame_continuity(p))

\* Test 5: check_audio_continuity
TestAudio(p) ==
    /\ vpc = "audio"
    /\ RunTest("audio", check_audio_continuity(p))

\* Summary
WriteSummary ==
    /\ vpc = "summary"
    /\ summary' = Summarize(tests)
    /\ vpc' = "done"
    /\ UNCHANGED <<has_video_info, tests, order>>
    /\ VFrame

VNext ==
    \/ \E ok \in BOOLEAN : GetVideoInfo(ok)
    \/ \E info \in ValidationProbes : TestSync(info)
    \/ \E p \in CorruptionInputs : TestCorruption(p)
    \/ \E p \in FrameInputs : TestFrames(p)
    \/ \E p \in AudioInputs : TestAudio(p)
    \/ WriteSummary

-----------------------------------------------------------------------------
(* Claims about the retry controller *)

Max0(n) == IF n > 0 THEN n ELSE 0

Good(h) == h.dl /\ h.found /\ h.passed

Returned == pc \in {"returned", "exited"} /\ result # "none"

\* C1: for maxAttempts = N the controller launches the downloader at most N
\* times, whatever the downloads and validations return; with N <= 0 it
\* launches it zero times.
C1_RetryBound == launches <= Max0(max_retries)

C1_Witness ==
    /\ Returned
    /\ max_retries = MaxRetries
    /\ launches = MaxRetries
    /\ result = "false"

\* C2: run_test_cycle returns success iff some attempt had a successful
\* download, a located artifact and a passing validation; that attempt is the
\* last one performed (nothing is launched after a pass).  It returns failure
\* exactly when every one of the N attempts ended without a pass.
C2_SuccessIffPass ==
    /\ \A k \in 1..(Len(history) - 1) : ~Good(history[k])
    /\ (Len(history) > 0 /\ Good(history[Len(history)]))
           => (Returned /\ launches = Len(history))
    /\ Returned =>
          /\ (result = "true") <=> (\E k \in 1..Len(history) : Good(history[k]))
          /\ (result = "false") <=>
                 /\ Len(history) = Max0(max_retries)
                 /\ \A k \in 1..Len(history) : ~Good(history[k])

C2_Witness ==
    /\ Returned
    /\ result = "true"
    /\ Len(history) = 2
    /\ ~history[1].passed /\ history[1].found

\* C3: every attempt k in 1..N whose validation is non-passing has its
\* artifact renamed with k in the name, the last attempt included: after N
\* consecutive non-passing verdicts the controller fails and N renamed
\* artifacts exist.
C3_EveryFailedAttemptRenamed ==
    /\ \A k \in 1..Len(history) :
          (history[k].found /\ ~history[k].passed) =>
              \E i \in 1..Len(renamed) :
                  /\ renamed[i].attempt = k
                  /\ renamed[i].to = FailedName(history[k].artifact, k)
    /\ (/\ Returned
        /\ result = "false"
        /\ max_retries > 0
        /\ \A k \in 1..Len(history) : history[k].found /\ ~history[k].passed)
           => Cardinality({f \in files : Len(f.name) > 1}) = max_retries

\* C4: once attempt k failed validation and its artifact was renamed, the
\* renamed file stays under that name with that content for the rest of the
\* run: no later attempt selects it, renames it, overwrites it or deletes it.
C4_RenamedArtifactKept ==
    \A i \in 1..Len(renamed) :
        /\ \E f \in files :
              f.name = renamed[i].to /\ f.content = renamed[i].content
        /\ pc = "validating" => video_path # renamed[i].to

\* C5: the process exits with 0 iff run_test_cycle returned success, and with
\* 1 on exhausted retries or when the URL argument is missing.
C5_ExitCode ==
    pc = "exited" =>
        /\ exit_code \in {0, 1}
        /\ exit_code = 0 <=> result = "true"
        /\ argc < 2 => (exit_code = 1 /\ launches = 0)

C5_Witness ==
    /\ pc = "exited"
    /\ exit_code = 0
    /\ result = "true"
    /\ launches > 1



-----------------------------------------------------------------------------
(* Claims about the sync check and the duration check *)

FirstOfType(streams, type) ==
    streams[CHOOSE i \in 1..Len(streams) :
                /\ streams[i].codec_type = type
                /\ \A j \in 1..(i - 1) : streams[j].codec_type # type]

HasType(streams, type) ==
    \E i \in 1..Len(streams) : streams[i].codec_type = type

SyncDone ==
    /\ sync_result # Pending
    /\ sync_info.ok
    /\ HasType(sync_info.streams, "video")
    /\ HasType(sync_info.streams, "audio")

SyncDiff ==
    Abs(FirstOfType(sync_info.streams, "video").duration
        - FirstOfType(sync_info.streams, "audio").duration)

\* C9: with a video and an audio stream, and d the difference of the first
\* video and the first audio duration, the sync check emits an issue iff
\* d > 2.0 s, a warning iff 0.5 s < d <= 2.0 s and neither iff d <= 0.5 s; its
\* passed flag is false iff it has an issue.
C9_SyncThresholds ==
    SyncDone =>
        /\ Has(sync_result.issues, "Audio/Video sync mismatch") <=> SyncDiff > 20
        /\ sync_result.issues # <<>> <=> SyncDiff > 20
        /\ Has(sync_result.warnings, "Minor sync difference")
               <=> (SyncDiff > 5 /\ SyncDiff <= 20)
        /\ sync_result.valid = FALSE <=> sync_result.issues # <<>>

C9_Witness ==
    /\ SyncDone
    /\ SyncDiff = 18
    /\ sync_result.valid
    /\ sync_result.warnings = <<"Minor sync difference">>
    /\ Len(sync_info.streams) = 3

DurationDone == dur_result # Pending

DurExpected == get_expected_duration_from_playlist(dur_args.playlist)

DurDiff == Abs(dur_args.video_info.duration - DurExpected.seconds)

\* C10: for a known expected duration E > 0, tolerance p per cent and actual
\* duration A > 0 with d = |A - E|, validate_duration emits an issue iff
\* d > E*p/100, a duration-mismatch warning iff E*p/200 < d <= E*p/100 and
\* neither otherwise; with the expected duration unknown it emits no
\* duration-mismatch issue or warning; A <= 0 is always an issue.
C10_DurationTolerance ==
    (DurationDone /\ dur_args.video_info.has_format) =>
        LET A == dur_args.video_info.duration
            E == DurExpected.seconds
            p == dur_args.tolerance_percent
            d == DurDiff
        IN  /\ A <= 0 => (~dur_result.valid /\ dur_result.issues # <<>>)
            /\ (A > 0 /\ DurExpected.known) =>
                  /\ E > 0
                  /\ Has(dur_result.issues, "Duration mismatch")
                         <=> 100 * d > E * p
                  /\ dur_result.issues # <<>> <=> 100 * d > E * p
                  /\ Has(dur_result.warnings, "Duration slightly off")
                         <=> (200 * d > E * p /\ 100 * d <= E * p)
                  /\ dur_result.valid <=> dur_result.issues = <<>>
            /\ (A > 0 /\ ~DurExpected.known) =>
                  /\ dur_result.issues = <<>>
                  /\ ~Has(dur_result.warnings, "Duration slightly off")
                  /\ dur_result.valid

C10_Witness ==
    /\ DurationDone
    /\ dur_args.video_info.has_format
    /\ dur_args.tolerance_percent = DEFAULT_TOLERANCE_PERCENT
    /\ DurExpected.known /\ DurExpected.seconds = 40
    /\ dur_args.video_info.duration = 42
    /\ dur_result.valid
    /\ Has(dur_result.warnings, "Duration slightly off")


-----------------------------------------------------------------------------
(* Claims about comprehensive_validation *)

ValidationDone == vpc = "done"

NoWarnings(t) ==
    [k \in DOMAIN t |->
        [f \in DOMAIN t[k] |-> IF f = "warnings" THEN <<>> ELSE t[k][f]]]

\* C6: in every report, all_tests_passed is the conjunction of the valid
\* flags of the entries of tests, and the warnings do not enter it: the
\* report with every warning removed has the same all_tests_passed, and a
\* check that carries warnings is valid exactly when it has no issue.
C6_AggregateVerdict ==
    ValidationDone =>
        /\ summary.all_tests_passed = (\A k \in DOMAIN tests : tests[k].valid)
        /\ summary.all_tests_passed
               = Summarize(NoWarnings(tests)).all_tests_passed
        /\ \A k \in DOMAIN tests :
              Get(tests[k], "warnings", <<>>) # <<>>
                  => (tests[k].valid <=> tests[k].issues = <<>>)

C6_Witness ==
    /\ ValidationDone
    /\ summary.all_tests_passed
    /\ summary.total_warnings > 1

\* C7: in every report, all_tests_passed is true exactly when total_issues
\* is 0, whatever each check returned.
C7_PassedIffNoIssues ==
    ValidationDone => (summary.all_tests_passed <=> summary.total_issues = 0)

AllChecks == <<"sync", "corruption", "frames", "audio">>

\* C8: the checks never short-circuit: whatever the probe and the earlier
\* checks returned, sync, corruption, frame continuity and audio continuity
\* run once each, in that order, and each is in the report's tests.
C8_AllChecksRun ==
    /\ Len(order) <= Len(AllChecks)
    /\ order = SubSeq(AllChecks, 1, Len(order))
    /\ vpc \in {"summary", "done"} =>
          /\ order = AllChecks
          /\ \A i \in 1..Len(AllChecks) : AllChecks[i] \in DOMAIN tests

C8_Witness ==
    /\ ValidationDone
    /\ "info" \in DOMAIN tests
    /\ ~tests["sync"].valid
    /\ ~tests["corruption"].valid
    /\ ~tests["frames"].valid
    /\ order = AllChecks
    /\ "audio" \in DOMAIN tests

-----------------------------------------------------------------------------
(* parse_master_playlist.  A playlist is a list of lines; a line has a tag  *)
(* (what it starts with), its attributes as <<name, value>> pairs in        *)
(* written order, and, for a line that is not a tag, the URL on it.  A URL  *)
(* is a scheme ("" when relative) and a path; a bandwidth is written as a   *)
(* list of digits, a frame rate as <<whole, hundredths>>.                   *)

NoUrl == [scheme |-> "", path |-> <<>>]

\* url.startswith('http')
IsAbsolute(url) == url.scheme = "http"

\* urljoin(base_url, url) for a relative reference without a leading slash:
\* the reference replaces the last segment of the base
urljoin(base_url, url) ==
    [scheme |-> base_url.scheme,
     path |-> SubSeq(base_url.path, 1, Len(base_url.path) - 1) \o url.path]

Resolve(base_url, url) ==
    IF IsAbsolute(url) THEN url ELSE urljoin(base_url, url)

\* int(text) on a list of decimal digits
RECURSIVE ParseInt(_)
ParseInt(digits) ==
    IF digits = <<>> THEN 0
    ELSE 10 * ParseInt(SubSeq(digits, 1, Len(digits) - 1))
         + digits[Len(digits)]

\* float(text), in hundredths
ParseFloat(text) == 100 * text[1] + text[2]

\* frame_rate default 25.0, in hundredths
DEFAULT_FRAME_RATE == 2500

\* re.search looks for NAME= anywhere in the line, so it also finds it at the
\* end of a longer attribute name
EndsWith(key, name) ==
    \/ key = name
    \/ key = "AVERAGE-BANDWIDTH" /\ name = "BANDWIDTH"
    \/ key = "ASSOC-LANGUAGE" /\ name = "LANGUAGE"

NoMatch == [found |-> FALSE]

\* re.search(r'NAME=(...)', line): the leftmost match, or None
Search(name, attrs) ==
    IF \E i \in 1..Len(attrs) : EndsWith(attrs[i][1], name)
    THEN LET i == CHOOSE k \in 1..Len(attrs) :
                     /\ EndsWith(attrs[k][1], name)
                     /\ \A j \in 1..(k - 1) : ~EndsWith(attrs[j][1], name)
         IN  [found |-> TRUE, group |-> attrs[i][2]]
    ELSE NoMatch

\* m.group(1) if m else default
GroupOr(m, default) == IF m.found THEN m.group ELSE default

\* line.startswith('#EXT-X-MEDIA:TYPE=AUDIO')
IsAudioMedia(line) == line.tag = "MEDIA-AUDIO"

\* line.startswith('#EXT-X-STREAM-INF:')
IsStreamInf(line) == line.tag = "STREAM-INF"

\* variant_url and not variant_url.startswith('#')
IsUrlLine(line) == line.tag = "URI"

\* First pass, one line: the audio track of a declaration that has a URI
AudioTrackAt(line, base_url) ==
    IF IsAudioMedia(line) /\ Search("URI", line.attrs).found
    THEN <<[url |-> Resolve(base_url, Search("URI", line.attrs).group),
            group_id |-> GroupOr(Search("GROUP-ID", line.attrs), "audio"),
            name |-> GroupOr(Search("NAME", line.attrs), "Unknown"),
            language |-> GroupOr(Search("LANGUAGE", line.attrs), "und")]>>
    ELSE <<>>

RECURSIVE first_pass(_, _)
first_pass(lines, base_url) ==
    IF lines = <<>> THEN <<>>
    ELSE AudioTrackAt(Head(lines), base_url)
         \o first_pass(Tail(lines), base_url)

\* audio_tracks[:1]
FirstAudio_all(audio_tracks) == audio_tracks
FirstAudio(audio_tracks) ==
    IF audio_tracks = <<>> THEN <<>> ELSE <<audio_tracks[1]>>

\* matching_audio if matching_audio else audio_tracks[:1]
MatchingAudio(attrs, audio_tracks) ==
    LET audio_group == Search("AUDIO", attrs)
        matching_audio ==
            IF audio_group.found
            THEN SelectSeq(audio_tracks,
                           LAMBDA a : a.group_id = audio_group.group)
            ELSE <<>>
    IN  IF matching_audio # <<>> THEN matching_audio
        ELSE FirstAudio(audio_tracks)

\* Second pass, line i: the variant of a declaration followed by its URL
VariantAt(lines, i, base_url, audio_tracks) ==
    IF IsStreamInf(lines[i]) /\ i + 1 <= Len(lines) /\ IsUrlLine(lines[i + 1])
    THEN LET attrs == lines[i].attrs
             bandwidth == Search("BANDWIDTH", attrs)
             frame_rate == Search("FRAME-RATE", attrs)
         IN <<[url |-> Resolve(base_url, lines[i + 1].url),
               bandwidth |-> IF bandwidth.found
                             THEN ParseInt(bandwidth.group) ELSE 0,
               resolution |-> GroupOr(Search("RESOLUTION", attrs), "unknown"),
               codecs |-> GroupOr(Search("CODECS", attrs), "unknown"),
               frame_rate |-> IF frame_rate.found
                              THEN ParseFloat(frame_rate.group)
                              ELSE DEFAULT_FRAME_RATE,
               audio_tracks |-> MatchingAudio(attrs, audio_tracks)]>>
    ELSE <<>>

second_pass(lines, base_url, audio_tracks) ==
    LET upto[i \in 0..Len(lines)] ==
            IF i = 0 THEN <<>>
            ELSE upto[i - 1] \o VariantAt(lines, i, base_url, audio_tracks)
    IN  upto[Len(lines)]

\* sort(key=bandwidth, reverse=True): an element moves in front of the ones
\* with a strictly smaller key only, so equal keys keep their order
SortsBefore_ge(a, b) == a.bandwidth >= b.bandwidth
SortsBefore(a, b) == a.bandwidth > b.bandwidth

InsertSorted(sorted, v) ==
    LET n == Cardinality({i \in 1..Len(sorted) : ~SortsBefore(v, sorted[i])})
    IN  SubSeq(sorted, 1, n) \o <<v>> \o SubSeq(sorted, n + 1, Len(sorted))

SortByBandwidth(vs) ==
    LET upto[i \in 0..Len(vs)] ==
            IF i = 0 THEN <<>> ELSE InsertSorted(upto[i - 1], vs[i])
    IN  upto[Len(vs)]

\* if not audio_tracks: variant['audio_tracks'] = []
ClearAudio(vs) == [i \in 1..Len(vs) |-> [vs[i] EXCEPT !.audio_tracks = <<>>]]

parse_master_playlist(content, base_url) ==
    LET audio_tracks == first_pass(content, base_url)
        sorted == SortByBandwidth(second_pass(content, base_url, audio_tracks))
    IN  IF audio_tracks = <<>> THEN ClearAudio(sorted) ELSE sorted

\* ---- playlists the parser is tried on ----

BaseUrl == [scheme |-> "http", path |-> <<"master", "master.m3u8">>]

Url(scheme, name) == [scheme |-> scheme, path |-> <<name>>]

Line(tag, attrs, url) == [tag |-> tag, attrs |-> attrs, url |-> url]

\* Lines of the playlists that vary in structure
PlaylistLines ==
    { Line("MEDIA-AUDIO", <<<<"GROUP-ID", "g1">>, <<"LANGUAGE", "hi">>,
                            <<"URI", Url("", "a1")>>>>, NoUrl),
      Line("MEDIA-AUDIO", <<<<"GROUP-ID", "g1">>, <<"URI", Url("", "a2")>>>>,
           NoUrl),
      Line("MEDIA-AUDIO", <<<<"GROUP-ID", "g2">>,
                            <<"URI", Url("http", "a3")>>>>, NoUrl),
      Line("MEDIA-AUDIO", <<<<"GROUP-ID", "g1">>, <<"NAME", "Hindi">>>>, NoUrl),
      Line("STREAM-INF", <<<<"BANDWIDTH", <<3>>>>, <<"AUDIO", "g1">>>>, NoUrl),
      Line("STREAM-INF", <<<<"BANDWIDTH", <<8>>>>>>, NoUrl),
      Line("STREAM-INF", <<<<"BANDWIDTH", <<0, 3>>>>, <<"AUDIO", "g3">>>>,
           NoUrl),
      Line("URI", <<>>, Url("", "v1")),
      Line("URI", <<>>, Url("http", "v2")),
      Line("COMMENT", <<>>, NoUrl),
      Line("BLANK", <<>>, NoUrl) }

StreamAttrs ==
    { <<"BANDWIDTH", <<8>>>>, <<"AVERAGE-BANDWIDTH", <<5>>>>,
      <<"RESOLUTION", "1920x1080">>, <<"CODECS", "avc1">>,
      <<"FRAME-RATE", <<29, 97>>>>, <<"AUDIO", "g1">> }

MediaAttrs ==
    { <<"URI", Url("", "a1")>>, <<"GROUP-ID", "g1">>, <<"NAME", "Hindi">>,
      <<"LANGUAGE", "hi">>, <<"ASSOC-LANGUAGE", "en">> }

\* Attribute lists without a repeated attribute
AttrLists(S) ==
    {s \in SeqsUpTo(S, MaxAttrs) :
        \A i, j \in 1..Len(s) : i # j => s[i] # s[j]}

\* Playlists with one declaration whose attributes vary
AttributePlaylists ==
    { <<Line("STREAM-INF", a, NoUrl), Line("URI", <<>>, Url("", "v1"))>> :
        a \in AttrLists(StreamAttrs) }
    \cup
    { <<Line("MEDIA-AUDIO", a, NoUrl),
        Line("STREAM-INF", <<<<"BANDWIDTH", <<8>>>>>>, NoUrl),
        Line("URI", <<>>, Url("", "v1"))>> :
        a \in AttrLists(MediaAttrs) }

PIdle == parse_args = [content |-> <<>>, base_url |-> NoUrl]
         /\ parse_result = [idle |-> TRUE]

PInit ==
    /\ parse_args \in [content : SeqsUpTo(PlaylistLines, MaxLines)
                                     \cup AttributePlaylists,
                       base_url : {BaseUrl}]
    /\ parse_result = Pending

ParseMasterPlaylist ==
    /\ parse_result = Pending
    /\ parse_result' =
           [variants |-> parse_master_playlist(parse_args.content,
                                               parse_args.base_url)]
    /\ UNCHANGED parse_args
    /\ PFrame

-----------------------------------------------------------------------------
(* Claims about parse_master_playlist *)

ParseDone == "variants" \in DOMAIN parse_result

\* The returned list
variants == parse_result.variants

Content == parse_args.content

\* The value written for an attribute, by its exact name
HasAttr(attrs, name) == \E i \in 1..Len(attrs) : attrs[i][1] = name

AttrOf(attrs, name) ==
    attrs[CHOOSE i \in 1..Len(attrs) : attrs[i][1] = name][2]

\* The audio declarations with a URI, in declaration order
DeclaredTracks ==
    SelectSeq(Content, LAMBDA l : l.tag = "MEDIA-AUDIO" /\ HasAttr(l.attrs, "URI"))

\* The stream declarations followed by their URL, in playlist order
DeclaredVariants ==
    LET upto[i \in 0..Len(Content)] ==
            IF i = 0 THEN <<>>
            ELSE IF /\ Content[i].tag = "STREAM-INF"
                    /\ i + 1 <= Len(Content)
                    /\ Content[i + 1].tag = "URI"
                 THEN Append(upto[i - 1], i)
                 ELSE upto[i - 1]
    IN  upto[Len(Content)]

\* The variants in the order the second pass extracted them
Extracted ==
    second_pass(Content, parse_args.base_url,
                first_pass(Content, parse_args.base_url))

Reorderings(n) ==
    {f \in [1..n -> 1..n] : \A i, j \in 1..n : i # j => f[i] # f[j]}

\* C11: the returned list is sorted by non-increasing bandwidth, variants of
\* equal bandwidth keep their playlist order, and the list is a permutation
\* of the variants extracted in playlist order.
C11_SortedStablePermutation ==
    ParseDone =>
        /\ \A i \in 1..(Len(variants) - 1) :
               variants[i].bandwidth >= variants[i + 1].bandwidth
        /\ Len(variants) = Len(Extracted)
        /\ \E f \in Reorderings(Len(variants)) :
               /\ \A i \in 1..Len(variants) : variants[i] = Extracted[f[i]]
               /\ \A i, j \in 1..Len(variants) :
                      (i < j /\ variants[i].bandwidth = variants[j].bandwidth)
                          => f[i] < f[j]

C11_Witness ==
    /\ ParseDone
    /\ Len(variants) = 2
    /\ Extracted[1].bandwidth < Extracted[2].bandwidth
    /\ variants[1] = Extracted[2]
    /\ variants[2] = Extracted[1]

\* What the declaration at line i is to yield for its own attributes
ExpectedAttributes(i) ==
    LET attrs == Content[i].attrs
    IN  [bandwidth |-> IF HasAttr(attrs, "BANDWIDTH")
                       THEN ParseInt(AttrOf(attrs, "BANDWIDTH")) ELSE 0,
         resolution |-> IF HasAttr(attrs, "RESOLUTION")
                        THEN AttrOf(attrs, "RESOLUTION") ELSE "unknown",
         codecs |-> IF HasAttr(attrs, "CODECS")
                    THEN AttrOf(attrs, "CODECS") ELSE "unknown",
         frame_rate |-> IF HasAttr(attrs, "FRAME-RATE")
                        THEN ParseFloat(AttrOf(attrs, "FRAME-RATE")) ELSE 2500]

OwnAttributes(v) ==
    [bandwidth |-> v.bandwidth, resolution |-> v.resolution,
     codecs |-> v.codecs, frame_rate |-> v.frame_rate]

ExpectedLanguage(line) ==
    IF HasAttr(line.attrs, "LANGUAGE")
    THEN AttrOf(line.attrs, "LANGUAGE") ELSE "und"

\* C12: a declaration with any subset of its attributes missing yields the
\* default of each missing attribute (bandwidth 0, resolution "unknown",
\* codecs "unknown", frame rate 25.0, language "und") and the written value
\* of each attribute that is present.
C12_DefaultsForMissing ==
    ParseDone =>
        /\ Len(Extracted) = Len(DeclaredVariants)
        /\ \A k \in 1..Len(Extracted) :
               OwnAttributes(Extracted[k])
                   = ExpectedAttributes(DeclaredVariants[k])
        /\ LET tracks == first_pass(Content, parse_args.base_url)
           IN  /\ Len(tracks) = Len(DeclaredTracks)
               /\ \A k \in 1..Len(tracks) :
                      tracks[k].language = ExpectedLanguage(DeclaredTracks[k])

\* The group an audio declaration belongs to
GroupOf(line) ==
    IF HasAttr(line.attrs, "GROUP-ID")
    THEN AttrOf(line.attrs, "GROUP-ID") ELSE "audio"

TrackId(base_url, line) ==
    <<Resolve(base_url, AttrOf(line.attrs, "URI")), GroupOf(line)>>

\* What the declaration at line i is to get as its audio tracks
ExpectedAudio(i) ==
    LET attrs == Content[i].attrs
        matching ==
            IF HasAttr(attrs, "AUDIO")
            THEN SelectSeq(DeclaredTracks,
                           LAMBDA l : GroupOf(l) = AttrOf(attrs, "AUDIO"))
            ELSE <<>>
        chosen == IF matching # <<>> THEN matching
                  ELSE IF DeclaredTracks # <<>> THEN <<DeclaredTracks[1]>>
                  ELSE <<>>
    IN  [k \in 1..Len(chosen) |-> TrackId(parse_args.base_url, chosen[k])]

AudioOf(v) ==
    [k \in 1..Len(v.audio_tracks) |->
        <<v.audio_tracks[k].url, v.audio_tracks[k].group_id>>]

\* C13: a returned variant has the audio tracks of its AUDIO group in
\* declaration order if there is one; otherwise the first parsed audio track
\* alone; and no audio track if none was declared.
C13_AudioTracksOfVariant ==
    ParseDone =>
        /\ Len(variants) = Len(DeclaredVariants)
        /\ \E f \in Reorderings(Len(variants)) :
               \A k \in 1..Len(variants) :
                   LET i == DeclaredVariants[f[k]]
                   IN  /\ variants[k].url
                              = Resolve(parse_args.base_url, Content[i + 1].url)
                       /\ AudioOf(variants[k]) = ExpectedAudio(i)
        /\ DeclaredTracks = <<>> =>
               \A k \in 1..Len(variants) : variants[k].audio_tracks = <<>>

\* Two tracks of one group matched, in declaration order
C13_Witness ==
    /\ ParseDone
    /\ Len(variants) = 1
    /\ Len(variants[1].audio_tracks) = 2
    /\ variants[1].audio_tracks[1].url # variants[1].audio_tracks[2].url
    /\ variants[1].audio_tracks[1].url.path = <<"master", "a1">>

\* The first line after line i that is no comment or other tag line, 0 when
\* there is none
NextNonComment(i) ==
    LET later == {j \in (i + 1)..Len(Content) : Content[j].tag # "COMMENT"}
    IN  IF later = {} THEN 0
        ELSE CHOOSE j \in later : \A k \in later : j <= k

\* The stream declarations whose next non-comment line is a URL
DeclaredWithUrl ==
    {i \in 1..Len(Content) :
        /\ Content[i].tag = "STREAM-INF"
        /\ NextNonComment(i) # 0
        /\ Content[NextNonComment(i)].tag = "URI"}

\* C31: every stream declaration whose next non-comment line is a URL yields
\* exactly one variant with that URL, also when comment or tag lines stand
\* between the declaration and its URL; the number of returned variants is
\* the number of such declarations.
C31_VariantPerDeclaration ==
    ParseDone =>
        /\ Len(variants) = Cardinality(DeclaredWithUrl)
        /\ \A i \in DeclaredWithUrl :
               \E k \in 1..Len(variants) :
                   variants[k].url =
                       Resolve(parse_args.base_url,
                               Content[NextNonComment(i)].url)

-----------------------------------------------------------------------------
(* monitor_network: one task per response event.  A task runs until it      *)
(* awaits something; the event loop then runs any other task that is ready. *)

Callbacks == 1..MaxCallbacks

\* A response that is no playlist
NotPlaylist == "none"

\* '/audio_' in url or '/audio/' in url
IsAudioUrl(url) == url \in {"audio_1"}

\* '/video_' in url or '/video/' in url
IsVideoUrl(url) == url \in {"video_1"}

StreamInf(url, bandwidth) == [url |-> url, bandwidth |-> bandwidth]

\* The responses of a session: two master playlists (their #EXT-X-STREAM-INF
\* entries in playlist order), a video and an audio media playlist, and a
\* response whose body is no playlist
Responses ==
    {[url |-> "master_1",
      stream_inf |-> <<StreamInf("u1", 3), StreamInf("u2", 8)>>],
     [url |-> "master_2",
      stream_inf |-> <<StreamInf("u2", 5), StreamInf("u1", 5)>>],
     [url |-> "video_1", stream_inf |-> <<>>],
     [url |-> "audio_1", stream_inf |-> <<>>],
     [url |-> NotPlaylist, stream_inf |-> <<>>]}

\* variants: parse_master_playlist for '#EXT-X-STREAM-INF' in body, else the
\* single variant playlist
Variants(r) ==
    IF r.stream_inf # <<>> THEN SortByBandwidth(r.stream_inf)
    ELSE <<StreamInf(r.url, 0)>>

\* max(variants, key=lambda x: x['bandwidth']): the first of the largest
BestVariant(vs) ==
    LET i == CHOOSE i \in 1..Len(vs) :
                 \A j \in 1..Len(vs) : vs[j].bandwidth <= vs[i].bandwidth
                                       /\ (vs[j].bandwidth = vs[i].bandwidth => i <= j)
    IN  vs[i]

VariantUrl(r) ==
    IF r.url = NotPlaylist THEN NotPlaylist ELSE BestVariant(Variants(r)).url

\* dict(request.headers) of the request of task t; {} before any capture
RequestHeaders(t) == t
NoHeaders == 0

\* {'url': url, 'headers': fresh_headers}
Detected(url, fresh_headers) == [url |-> url, headers |-> fresh_headers]

\* No call of auto_download yet
NoCall == [called |-> FALSE]

\* best_variant['audio_tracks'] as overridden from the detected audio streams
DetectedTracks(detected) ==
    [i \in 1..Len(detected) |->
        [url |-> detected[i].url, headers |-> detected[i].headers,
         language |-> "hi", name |-> "Hindi"]]

\* lang of an entry of audio_urls that is a URL
UNDETERMINED == "und"

\* The titles page.title() gives; auto_download names the output after the
\* title, or after the playlist URL when the title is empty
PageTitles == {"", "Show"}

\* filename = f"{title_clean}_{timestamp}.mp4", or the cleaned URL path
\* segments in place of the title
Filename(page_title, playlist_url, timestamp) ==
    <<IF page_title # "" THEN page_title ELSE playlist_url, timestamp>>

\* temp_video and temp_audio of download_with_ffmpeg, named by its own
\* timestamp; there are none when no audio URLs are passed
TempPaths(tracks, timestamp) ==
    IF tracks = <<>> THEN {}
    ELSE {<<"video", timestamp>>}
         \cup {<<"audio", timestamp, idx - 1, UNDETERMINED>> :
                   idx \in 1..Len(tracks)}

\* The arguments best_variant and headers of auto_download
AutoDownloadCall(variant_url, videos, audios, captured) ==
    [called |-> TRUE,
     overridden |-> videos # <<>>,
     url |-> IF videos # <<>> THEN videos[1].url ELSE variant_url,
     headers |-> IF videos # <<>> THEN videos[1].headers ELSE captured,
     audio_tracks |-> DetectedTracks(audios)]

\* The paths of the acquisition auto_download(..., timestamp, url,
\* page_title) starts at time started
AcquisitionPaths(tracks, timestamp, playlist_url, page_title, started) ==
    [output_path |-> Filename(page_title, playlist_url, timestamp),
     temp_paths |-> TempPaths(tracks, started)]

\* No playlist_info appended by the task
NoPlaylist == [url |-> NotPlaylist]

\* The best variant as parse_master_playlist (or the single variant branch)
\* returned it; the playlists of the session declare no audio tracks
Parsed(variant_url) == [url |-> variant_url, audio_tracks |-> <<>>]

\* best_variant is the dict that playlist_info['variants'] holds: the
\* assignments to best_variant['audio_tracks'] and best_variant['url'] are
\* assignments to the variant of the captured playlist
Overridden(best_variant, videos, audios) ==
    [url |-> IF videos # <<>> THEN videos[1].url ELSE best_variant.url,
     audio_tracks |-> IF audios # <<>> THEN DetectedTracks(audios)
                      ELSE best_variant.audio_tracks]

MIdle ==
    /\ mpc = <<>> /\ murl = <<>> /\ downloading_urls = {}
    /\ mresponse = <<>> /\ video_m3u8_urls = <<>> /\ audio_m3u8_urls = <<>>
    /\ self_headers = NoHeaders /\ auto_download_call = <<>>
    /\ now = 0 /\ mstamp = <<>> /\ captured_playlists = <<>>

MInit ==
    /\ mpc = [t \in Callbacks |-> "pending"]
    /\ murl = [t \in Callbacks |-> NotPlaylist]
    /\ downloading_urls = {}
    /\ mresponse = [t \in Callbacks |-> NotPlaylist]
    /\ video_m3u8_urls = <<>>
    /\ audio_m3u8_urls = <<>>
    /\ self_headers = NoHeaders
    /\ auto_download_call = [t \in Callbacks |-> NoCall]
    /\ now = 0
    /\ mstamp = [t \in Callbacks |-> 0]
    /\ captured_playlists = [t \in Callbacks |-> NoPlaylist]

\* page.on('response', ...): the task is created and runs up to
\* 'await response.text()'; an audio or video playlist URL is appended to
\* the detected streams ('url not in' compares the URL with the entries, which
\* are dicts, so it is always true)
Respond(t, r) ==
    /\ mpc[t] = "pending"
    /\ mpc' = [mpc EXCEPT ![t] = "text"]
    /\ murl' = [murl EXCEPT ![t] = VariantUrl(r)]
    /\ mresponse' = [mresponse EXCEPT ![t] = r.url]
    /\ audio_m3u8_urls' =
          IF IsAudioUrl(r.url)
          THEN Append(audio_m3u8_urls, Detected(r.url, RequestHeaders(t)))
          ELSE audio_m3u8_urls
    /\ video_m3u8_urls' =
          IF ~IsAudioUrl(r.url) /\ IsVideoUrl(r.url)
          THEN Append(video_m3u8_urls, Detected(r.url, RequestHeaders(t)))
          ELSE video_m3u8_urls
    /\ UNCHANGED <<downloading_urls, self_headers, auto_download_call, now,
                   mstamp, captured_playlists>>
    /\ MFrame

\* The body arrived: the playlist is saved, self.headers is set from the
\* request, the playlist is parsed, the best variant is looked up in
\* downloading_urls, and the task awaits page.title()
BodyReceived(t) ==
    /\ mpc[t] = "text"
    /\ mpc' = [mpc EXCEPT ![t] =
                  IF murl[t] = NotPlaylist THEN "done"
                  ELSE IF murl[t] \in downloading_urls THEN "skipped"
                  ELSE "title"]
    /\ self_headers' =
          IF murl[t] = NotPlaylist THEN self_headers ELSE RequestHeaders(t)
    /\ mstamp' = IF mpc'[t] = "title" THEN [mstamp EXCEPT ![t] = now]
                 ELSE mstamp
    /\ captured_playlists' =
          IF murl[t] = NotPlaylist THEN captured_playlists
          ELSE [captured_playlists EXCEPT ![t] = Parsed(murl[t])]
    /\ UNCHANGED <<murl, downloading_urls, mresponse, video_m3u8_urls,
                   audio_m3u8_urls, auto_download_call, now>>
    /\ MFrame

\* The title arrived: the URL is marked and auto_download is called; it runs
\* up to the start of its first external process
TitleReceived(t, page_title) ==
    /\ mpc[t] = "title"
    /\ downloading_urls' = downloading_urls \cup {murl[t]}
    /\ mpc' = [mpc EXCEPT ![t] = "auto_download"]
    /\ auto_download_call' =
          [auto_download_call EXCEPT ![t] =
              AutoDownloadCall(murl[t], video_m3u8_urls, audio_m3u8_urls,
                               self_headers)
              @@ AcquisitionPaths(DetectedTracks(audio_m3u8_urls), mstamp[t],
                                  mresponse[t], page_title, now)]
    /\ captured_playlists' =
          [captured_playlists EXCEPT ![t] =
              Overridden(captured_playlists[t], video_m3u8_urls,
                         audio_m3u8_urls)]
    /\ UNCHANGED <<murl, mresponse, video_m3u8_urls, audio_m3u8_urls,
                   self_headers, now, mstamp>>
    /\ MFrame

\* auto_download returned or raised: finally: discard; the task ends and
\* its locals are gone
DownloadReturns(t) ==
    /\ mpc[t] = "auto_download"
    /\ downloading_urls' = downloading_urls \ {murl[t]}
    /\ mpc' = [mpc EXCEPT ![t] = "done"]
    /\ auto_download_call' = [auto_download_call EXCEPT ![t] = NoCall]
    /\ mstamp' = [mstamp EXCEPT ![t] = 0]
    /\ UNCHANGED <<murl, mresponse, video_m3u8_urls, audio_m3u8_urls,
                   self_headers, now, captured_playlists>>
    /\ MFrame

\* The clock reaches the next second
Tick ==
    /\ now < MaxSeconds
    /\ now' = now + 1
    /\ UNCHANGED <<mpc, murl, downloading_urls, mresponse, video_m3u8_urls,
                   audio_m3u8_urls, self_headers, auto_download_call, mstamp,
                   captured_playlists>>
    /\ MFrame

MNext ==
    \/ \E t \in Callbacks, r \in Responses : Respond(t, r)
    \/ \E t \in Callbacks : BodyReceived(t)
    \/ \E t \in Callbacks, page_title \in PageTitles :
          TitleReceived(t, page_title)
    \/ \E t \in Callbacks : DownloadReturns(t)
    \/ Tick

-----------------------------------------------------------------------------
(* Claims about monitor_network *)

Acquiring(t) == mpc[t] = "auto_download"

\* C14: at no time are two acquisitions in progress for the same
\* best-variant URL; the check of the in-flight set and the insertion into
\* it are not separated by a point where another callback can run.
C14_NoDuplicateAcquisition ==
    \A t1, t2 \in DOMAIN mpc :
        (t1 # t2 /\ Acquiring(t1) /\ Acquiring(t2)) => murl[t1] # murl[t2]

Called(t) == auto_download_call[t].called

\* C21: the video stream URL passed to the acquisition of a detected playlist
\* is the URL of the highest-bandwidth variant of that playlist (the first
\* such variant in playlist order on ties), whatever other playlist URLs
\* were detected earlier in the session.
C21_BestVariantAcquired ==
    \A t \in DOMAIN auto_download_call :
        Called(t) => auto_download_call[t].url = murl[t]

\* The paths an acquisition in progress writes
PathsOf(t) ==
    {auto_download_call[t].output_path} \cup auto_download_call[t].temp_paths

\* C29: no two acquisitions in progress at the same time use the same
\* intermediate file path (temp video or temp audio file) or the same final
\* output path, even when both were started within the same clock second.
\* Stated for acquisitions of two different streams; two acquisitions of the
\* same stream are the subject of C14.
C29_DistinctPaths ==
    \A t1, t2 \in DOMAIN mpc :
        (t1 # t2 /\ Acquiring(t1) /\ Acquiring(t2) /\ murl[t1] # murl[t2]) =>
            PathsOf(t1) \cap PathsOf(t2) = {}

\* C30: under any interleaving of monitor_network callbacks, when no
\* separately detected video stream overrides it, the header map used to
\* acquire a playlist's variant is the one captured from that playlist's own
\* request, never the headers of a playlist detected by another callback.
C30_OwnHeaders ==
    \A t \in DOMAIN auto_download_call :
        (Called(t) /\ ~auto_download_call[t].overridden) =>
            auto_download_call[t].headers = RequestHeaders(t)

\* C32: triggering an acquisition does not mutate the selected variant: once
\* monitor_network has started auto_download, the url and audio_tracks of
\* the best variant stored in the captured playlist record are those the
\* parser returned for that playlist.
C32_CapturedVariantUnchanged ==
    \A t \in DOMAIN mpc :
        (Acquiring(t) \/ mpc[t] = "done") =>
            captured_playlists[t] \in {NoPlaylist, Parsed(murl[t])}

\* The URLs of the entries of a registry of detected streams
UrlsOf(detected) == {detected[i].url : i \in 1..Len(detected)}

OneEntryPerUrl(detected) ==
    \A i, j \in 1..Len(detected) : i # j => detected[i].url # detected[j].url

\* C34: after any sequence of detected responses, audio_m3u8_urls and
\* video_m3u8_urls contain at most one entry per URL (detecting the same URL
\* again adds no entry), so the number of audio tracks handed to an
\* acquisition never exceeds the number of distinct audio URLs detected.
C34_OneEntryPerDetectedUrl ==
    /\ OneEntryPerUrl(audio_m3u8_urls)
    /\ OneEntryPerUrl(video_m3u8_urls)
    /\ \A t \in DOMAIN auto_download_call :
           Called(t) => Len(auto_download_call[t].audio_tracks)
                            <= Cardinality(UrlsOf(audio_m3u8_urls))

\* The URLs for which an acquisition is in progress
InProgress == {murl[t] : t \in {u \in DOMAIN mpc : Acquiring(u)}}

\* C35: the in-flight set holds a variant URL exactly while an acquisition
\* for it is in progress: it is empty whenever no acquisition is running and
\* the URL of every acquisition in progress is in it.
C35_InFlightExact == downloading_urls = InProgress

-----------------------------------------------------------------------------
(* The header block of download_with_ffmpeg.  A header map is the list of   *)
(* its items in insertion order; a string is the list of its parts.         *)

CRLF == "\r\n"

\* The header names of the requests, in the spellings a map can hold
HeaderNames == {"Host", "host", "CONNECTION", "content-length", "Cookie", "Range"}

HeaderValues == {"v1", "v2"}

\* key.lower()
Lower(key) ==
    CASE key = "Host" -> "host"
      [] key = "CONNECTION" -> "connection"
      [] key = "Cookie" -> "cookie"
      [] key = "Range" -> "range"
      [] OTHER -> key

STRIPPED_HEADERS == {"host", "content-length", "connection"}

\* key.lower() not in ['host', 'content-length', 'connection']
Kept_exact(key) == key \notin STRIPPED_HEADERS
Kept(key) == Lower(key) \notin STRIPPED_HEADERS

\* f'{key}: {value}'
Render(item) == <<item.key, ": ", item.value>>

\* header_list
HeaderList(headers) ==
    LET keep(item) == Kept(item.key)
        kept == SelectSeq(headers, keep)
    IN  [i \in 1..Len(kept) |-> Render(kept[i])]

\* sep.join(list)
RECURSIVE Join(_, _)
Join(sep, list) ==
    IF list = <<>> THEN <<>>
    ELSE IF Len(list) = 1 THEN list[1]
    ELSE list[1] \o <<sep>> \o Join(sep, Tail(list))

\* headers_str = '\r\n'.join(header_list) + '\r\n'
HeadersStr(headers) == Join(CRLF, HeaderList(headers)) \o <<CRLF>>

\* isinstance(audio_info, dict): a string is modelled as [str |-> ...]
IsDict(audio_info) == "str" \notin DOMAIN audio_info

\* audio_headers_str
AudioHeadersStr(audio_info, headers_str) ==
    IF IsDict(audio_info) /\ "headers" \in DOMAIN audio_info
    THEN HeadersStr(audio_info.headers)
    ELSE headers_str

Item(key, value) == [key |-> key, value |-> value]

\* The maps of at most MaxHeaders items (the keys of a map are distinct)
HeaderMaps ==
    {h \in SeqsUpTo([key : HeaderNames, value : HeaderValues], MaxHeaders) :
        \A i, j \in 1..Len(h) : i # j => h[i].key # h[j].key}

\* The entries of audio_urls: a URL, or a dict with or without 'headers'
AudioInfos ==
    {[str |-> "a1"],
     [url |-> "a1"],
     [url |-> "a1", headers |-> <<>>],
     [url |-> "a1",
      headers |-> <<Item("CONNECTION", "v1"), Item("Cookie", "v2"),
                    Item("host", "v2"), Item("Range", "v1")>>]}

HIdle == header_args = Pending /\ header_block = Pending

HInit ==
    /\ header_args \in [headers : HeaderMaps, audio_info : AudioInfos]
    /\ header_block = Pending

\* The '-headers' arguments of the video and of the audio download
BuildHeaders ==
    /\ header_block = Pending
    /\ header_block' =
          [video |-> HeadersStr(header_args.headers),
           audio |-> AudioHeadersStr(header_args.audio_info,
                                     HeadersStr(header_args.headers))]
    /\ UNCHANGED header_args
    /\ HFrame

-----------------------------------------------------------------------------
(* Claims about the header block *)

HeadersBuilt == header_block # Pending

\* The items of a map that are not host, content-length or connection in any
\* spelling, in captured order
Passed(headers) ==
    LET n == Len(headers)
        idx == {i \in 1..n : Lower(headers[i].key) \notin
                                 {"host", "content-length", "connection"}}
        nth[k \in 1..Cardinality(idx)] ==
            CHOOSE i \in idx : Cardinality({j \in idx : j < i}) = k - 1
    IN  [k \in 1..Cardinality(idx) |-> headers[nth[k]]]

\* block is 'name: value' of each item, in order, separated by CRLF
IsBlockOf(block, items) ==
    /\ Len(block) = IF items = <<>> THEN 1 ELSE 4 * Len(items)
    /\ block[Len(block)] = CRLF
    /\ \A k \in 1..Len(items) :
          /\ block[4 * k - 3] = items[k].key
          /\ block[4 * k - 2] = ": "
          /\ block[4 * k - 1] = items[k].value
          /\ k < Len(items) => block[4 * k] = CRLF

\* The map whose headers the audio download sends
AudioMap(args) ==
    IF "headers" \in DOMAIN args.audio_info THEN args.audio_info.headers
    ELSE args.headers

\* C22: the header block of every download holds exactly the captured
\* headers whose name, compared without case, is not host, content-length or
\* connection, each as 'name: value', in captured order, joined by CRLF; no
\* stripped header appears and no other header is dropped or altered.
C22_HeaderBlock ==
    HeadersBuilt =>
        /\ IsBlockOf(header_block.video, Passed(header_args.headers))
        /\ IsBlockOf(header_block.audio, Passed(AudioMap(header_args)))
        /\ \A i \in 1..Len(header_block.video) :
              Lower(header_block.video[i]) \notin STRIPPED_HEADERS

\* A map with a stripped name in upper case between two kept headers
C22_Witness ==
    /\ HeadersBuilt
    /\ Len(header_args.headers) = 3
    /\ header_args.headers[1].key = "Range"
    /\ header_args.headers[2].key = "Host"
    /\ header_args.headers[3].key = "Cookie"
    /\ Len(header_block.video) = 8
    /\ "headers" \in DOMAIN header_args.audio_info
    /\ Len(header_block.audio) = 8

-----------------------------------------------------------------------------
(* download_with_ffmpeg and validate_merged_file.  Every external process   *)
(* is awaited before the next one is started; trace lists the starts and    *)
(* exits of the processes.  Durations are in tenths of a second.            *)

\* abs(video_duration - audio_duration) > 1.0
MERGED_SYNC_TENTHS == 10

\* total_duration < 1.0
MIN_DURATION_TENTHS == 10

NoOutput == [exists |-> FALSE]

TempVideo == <<"video", 0>>
TempAudio(idx) == <<"audio", idx>>

Event(tool, ev, track, rc, inputs, shape) ==
    [tool |-> tool, ev |-> ev, track |-> track, rc |-> rc,
     inputs |-> inputs, shape |-> shape]

Start(tool, track) == Event(tool, "start", track, 0, <<>>, "")
Exit(tool, track, rc) == Event(tool, "exit", track, rc, <<>>, "")

\* if process.returncode != 0: return False (video, line 733)
VideoOk_any(rc) == TRUE
VideoOk(rc) == rc = 0

\* if process.returncode == 0: temp_audio_files.append(...) (line 784)
AudioOk_any(rc) == TRUE
AudioOk(rc) == rc = 0

\* for idx, audio_info in enumerate(audio_urls): is there a next track
HasNextTrack_never(idx, urls) == FALSE
HasNextTrack(idx, urls) == idx < Len(urls)

\* audio_info.get('url') if isinstance(audio_info, dict) else audio_info
AudioUrlOf(audio_info) ==
    IF IsDict(audio_info) THEN audio_info.url ELSE audio_info.str

\* audio_info.get('language', 'und') if isinstance(audio_info, dict) else 'und'
Lang(audio_info) ==
    IF IsDict(audio_info) /\ "language" \in DOMAIN audio_info
    THEN audio_info.language
    ELSE UNDETERMINED

\* The start of a download: '-headers', headers_str, ..., '-i', url
StartDownload(tool, track, url, headers_str) ==
    [url |-> url, headers |-> headers_str] @@ Start(tool, track)

\* temp_audio_files.append((temp_audio, lang))
AudioFile(idx, lang) == [file |-> TempAudio(idx), lang |-> lang]

\* if temp_audio_files: multi-track merge, else: copy of the video
MergeShape(audio_files) ==
    IF audio_files # <<>> THEN "multitrack" ELSE "copy"

\* '-i' of each audio file, by the track the file holds
MergeInputs(audio_files) ==
    [k \in 1..Len(audio_files) |-> audio_files[k].file[2]]

\* '-map', '0:v:0' and '-map', f'{idx+1}:a:0' for each audio file
MergeMaps(audio_files) ==
    <<[input |-> 0, stream |-> "v:0"]>>
    \o [k \in 1..Len(audio_files) |-> [input |-> k, stream |-> "a:0"]]

\* f'-metadata:s:a:{idx}', f'language={lang}': entry k is output audio
\* stream k - 1
MergeLanguages_first(audio_files) ==
    [k \in 1..Len(audio_files) |-> audio_files[1].lang]
MergeLanguages(audio_files) ==
    [k \in 1..Len(audio_files) |-> audio_files[k].lang]

\* merge_cmd
StartRemux(audio_files) ==
    [maps |-> IF audio_files # <<>> THEN MergeMaps(audio_files) ELSE <<>>,
     languages |-> MergeLanguages(audio_files)]
    @@ Event("remux", "start", 0, 0, MergeInputs(audio_files),
             MergeShape(audio_files))

\* audio_urls = [track['url'] for track in audio_tracks] if audio_tracks
\* else None (auto_download)
AudioUrlsOf(tracks) == [i \in 1..Len(tracks) |-> [str |-> tracks[i].url]]

\* if validation_result['valid']: cleanup_temp_files(...) (line 860)
ShouldCleanup_always(valid) == TRUE
ShouldCleanup(valid) == valid

\* cleanup_temp_files(temp_video, temp_audio_files)
cleanup_temp_files(existing, audio_files) ==
    existing \ ({TempVideo} \cup {audio_files[i].file :
                                     i \in 1..Len(audio_files)})

\* validate_merged_file on what ffprobe printed
validate_merged_file(p) ==
    IF p.raises
    THEN [valid |-> FALSE, issues |-> <<"Validation error">>]
    ELSE IF p.returncode # 0
    THEN [valid |-> FALSE, issues |-> <<"ffprobe failed">>]
    ELSE LET video_streams == SelectSeq(p.streams, IsVideo)
             audio_streams == SelectSeq(p.streams, IsAudio)
             issues ==
                 (IF video_streams = <<>>
                  THEN <<"No video stream found">> ELSE <<>>)
                 \o (IF /\ video_streams # <<>>
                        /\ audio_streams # <<>>
                        /\ Abs(video_streams[Len(video_streams)].duration
                               - audio_streams[1].duration)
                               > MERGED_SYNC_TENTHS
                     THEN <<"Audio/Video sync issue">> ELSE <<>>)
                 \o (IF p.format_duration < MIN_DURATION_TENTHS
                     THEN <<"File too short">> ELSE <<>>)
         IN  [valid |-> Len(issues) = 0, issues |-> issues,
              audio_count |-> Len(audio_streams),
              duration |-> p.format_duration]

\* ---- inputs ----

AudioUrls == {"a1", "a2"}

\* The headers argument, and the headers captured with an audio request
VideoRequestHeaders == <<Item("Host", "v1"), Item("Cookie", "v1")>>
TrackRequestHeaders == <<Item("Cookie", "v2"), Item("Range", "v1")>>

\* The entries of audio_urls: a URL, or a dict with 'url' and possibly
\* 'language' and 'headers'
AudioEntries ==
    {[str |-> u] : u \in AudioUrls}
    \cup {[url |-> "a2"],
          [url |-> "a1", language |-> "en", headers |-> TrackRequestHeaders]}

\* The audio tracks of the variant auto_download is called with: as parsed
\* from the playlist (its LANGUAGE, 'und' without one), or as detected
PlaylistTracks ==
    {[url |-> "a1", language |-> "en"],
     [url |-> "a2", language |-> UNDETERMINED],
     [url |-> "a1", language |-> "hi", headers |-> TrackRequestHeaders]}

ExitCodes == {0, 1}

\* Streams of a written output with n audio tracks
OutputStreams(n) ==
    { <<[codec_type |-> "video", codec_name |-> "h264", duration |-> 100]>>
      \o [i \in 1..n |-> [codec_type |-> "audio", codec_name |-> "aac",
                          duration |-> d]] : d \in {100, 115} }

OutputFiles(n) ==
    [exists : {TRUE}, streams : OutputStreams(n), format_duration : {5, 100}]

\* The outputs a merge can write: one audio stream per audio input
MergedFiles == UNION {OutputFiles(n) : n \in 0..MaxTracks}

AudioCount(out) == Len(SelectSeq(out.streams, IsAudio))

\* What ffprobe gives for an output
ProbeOutcomes == {"ok", "failed", "raises"}

ProbeOf(out, outcome) ==
    [raises |-> outcome = "raises",
     returncode |-> IF outcome = "failed" THEN 1 ELSE 0,
     streams |-> out.streams, format_duration |-> out.format_duration]

\* No call of download_with_ffmpeg in progress
AQuiet ==
    /\ apc = "idle" /\ audio_urls = <<>> /\ variant_tracks = <<>>
    /\ aidx = 0 /\ temp_audio_files = <<>> /\ temp_files = {}
    /\ produced = {} /\ output = NoOutput /\ trace = <<>>
    /\ merged = [idle |-> TRUE] /\ aresult = "none" /\ araised = "none"
    /\ controller_report = [idle |-> TRUE]

AIdle == ffmpeg_installed = FALSE /\ AQuiet

AInit ==
    /\ ffmpeg_installed \in BOOLEAN
    /\ apc = "ready" /\ audio_urls = <<>> /\ variant_tracks = <<>>
    /\ aidx = 0 /\ temp_audio_files = <<>> /\ temp_files = {}
    /\ produced = {} /\ output = NoOutput /\ trace = <<>>
    /\ merged = Pending /\ aresult = "none" /\ araised = "none"
    /\ controller_report = Pending

\* return False / return True
Return(value) == apc' = "returned" /\ aresult' = value

\* download_with_ffmpeg runs up to its first external process
EnterDownload(urls) ==
    /\ apc = "ready"
    /\ audio_urls' = urls
    /\ IF ~ffmpeg_installed
       THEN /\ araised' = "FileNotFoundError"
            /\ Return("false")
            /\ UNCHANGED trace
       ELSE /\ apc' = IF urls = <<>> THEN "single" ELSE "video"
            /\ trace' = <<StartDownload(
                              IF urls = <<>> THEN "download" ELSE "video", 0,
                              "video", HeadersStr(VideoRequestHeaders))>>
            /\ UNCHANGED <<araised, aresult>>
    /\ UNCHANGED <<ffmpeg_installed, aidx, temp_audio_files, temp_files,
                   produced, output, merged, controller_report>>
    /\ AFrame

\* download_with_ffmpeg is called with a list of audio entries
CallDownloadWithFfmpeg(urls) ==
    /\ EnterDownload(urls)
    /\ variant_tracks' = <<>>

\* auto_download is called with a variant that has audio tracks: it calls
\* download_with_ffmpeg with their URLs
AutoDownload(tracks) ==
    /\ tracks # <<>>
    /\ EnterDownload(AudioUrlsOf(tracks))
    /\ variant_tracks' = tracks

\* No separate audio: the single download exited
SingleExit(rc, out) ==
    /\ apc = "single"
    /\ IF rc # 0
       THEN /\ Return("false")
            /\ trace' = Append(trace, Exit("download", 0, rc))
            /\ UNCHANGED output
       ELSE /\ apc' = "single_validate"
            /\ output' = out
            /\ trace' = trace \o <<Exit("download", 0, rc), Start("validate", 0)>>
            /\ UNCHANGED aresult
    /\ UNCHANGED <<ffmpeg_installed, variant_tracks,
                   audio_urls, aidx, temp_audio_files,
                   temp_files, produced, merged, araised, controller_report>>
    /\ AFrame

\* No separate audio: validate_merged_file returned
SingleValidateExit(outcome) ==
    /\ apc = "single_validate"
    /\ merged' = validate_merged_file(ProbeOf(output, outcome))
    /\ Return(IF merged'.valid THEN "true" ELSE "false")
    /\ trace' = Append(trace, Exit("validate", 0, IF outcome = "ok" THEN 0 ELSE 1))
    /\ UNCHANGED <<ffmpeg_installed, variant_tracks,
                   audio_urls, aidx, temp_audio_files,
                   temp_files, produced, output, araised, controller_report>>
    /\ AFrame

\* audio_cmd of track idx
StartAudio(idx) ==
    StartDownload("audio", idx, AudioUrlOf(audio_urls[idx]),
                  AudioHeadersStr(audio_urls[idx],
                                  HeadersStr(VideoRequestHeaders)))

\* The video-only download exited; a failed one may leave a partial file
VideoExit(rc, partial) ==
    /\ apc = "video"
    /\ IF ~VideoOk(rc)
       THEN /\ Return("false")
            /\ trace' = Append(trace, Exit("video", 0, rc))
            /\ temp_files' = IF partial THEN temp_files \cup {TempVideo}
                             ELSE temp_files
            /\ UNCHANGED <<aidx, produced>>
       ELSE /\ apc' = "audio"
            /\ aidx' = 1
            /\ trace' = trace \o <<Exit("video", 0, rc), StartAudio(1)>>
            /\ temp_files' = temp_files \cup {TempVideo}
            /\ produced' = produced \cup {TempVideo}
            /\ UNCHANGED aresult
    /\ UNCHANGED <<ffmpeg_installed, variant_tracks,
                   audio_urls, temp_audio_files, output,
                   merged, araised, controller_report>>
    /\ AFrame

\* The download of audio track aidx exited; the loop goes on to the next
\* track or, after the last, the merge is started
AudioExit(rc, partial) ==
    /\ apc = "audio"
    /\ LET ok == AudioOk(rc)
           acquired == IF ok
                       THEN Append(temp_audio_files,
                                   AudioFile(aidx, Lang(audio_urls[aidx])))
                       ELSE temp_audio_files
       IN  /\ temp_audio_files' = acquired
           /\ temp_files' = IF ok \/ partial
                            THEN temp_files \cup {TempAudio(aidx)}
                            ELSE temp_files
           /\ produced' = IF ok THEN produced \cup {TempAudio(aidx)}
                          ELSE produced
           /\ IF HasNextTrack(aidx, audio_urls)
              THEN /\ aidx' = aidx + 1
                   /\ trace' = trace \o <<Exit("audio", aidx, rc),
                                          StartAudio(aidx + 1)>>
                   /\ UNCHANGED apc
              ELSE /\ apc' = "remux"
                   /\ trace' = trace \o <<Exit("audio", aidx, rc),
                                          StartRemux(acquired)>>
                   /\ UNCHANGED aidx
    /\ UNCHANGED <<ffmpeg_installed, variant_tracks,
                   audio_urls, output, merged, aresult,
                   araised, controller_report>>
    /\ AFrame

\* The merge exited; after a merge with status 0 the output is validated
RemuxExit(rc, out) ==
    /\ apc = "remux"
    /\ AudioCount(out) = Len(temp_audio_files)
    /\ IF rc = 0
       THEN /\ apc' = "validate"
            /\ output' = out
            /\ trace' = trace \o <<Exit("remux", 0, rc), Start("validate", 0)>>
            /\ UNCHANGED aresult
       ELSE /\ Return("false")
            /\ trace' = Append(trace, Exit("remux", 0, rc))
            /\ UNCHANGED output
    /\ UNCHANGED <<ffmpeg_installed, variant_tracks,
                   audio_urls, aidx, temp_audio_files,
                   temp_files, produced, merged, araised, controller_report>>
    /\ AFrame

\* validate_merged_file returned for the merged output
ValidateExit(outcome) ==
    /\ apc = "validate"
    /\ merged' = validate_merged_file(ProbeOf(output, outcome))
    /\ Return(IF merged'.valid THEN "true" ELSE "false")
    /\ temp_files' = IF ShouldCleanup(merged'.valid)
                     THEN cleanup_temp_files(temp_files, temp_audio_files)
                     ELSE temp_files
    /\ trace' = Append(trace, Exit("validate", 0, IF outcome = "ok" THEN 0 ELSE 1))
    /\ UNCHANGED <<ffmpeg_installed, variant_tracks,
                   audio_urls, aidx, temp_audio_files,
                   produced, output, araised, controller_report>>
    /\ AFrame

\* Waiting for a process raised: except Exception: return False
ProcessRaises ==
    /\ apc \in {"single", "video", "audio", "remux"}
    /\ araised' = "Exception"
    /\ Return("false")
    /\ UNCHANGED <<ffmpeg_installed, variant_tracks,
                   audio_urls, aidx, temp_audio_files,
                   temp_files, produced, output, trace, merged,
                   controller_report>>
    /\ AFrame

\* The retry controller's validation run on the output: the checks of
\* continuous_validator.py that look at the audio streams
ValidateDownload ==
    /\ apc = "returned"
    /\ output.exists
    /\ controller_report = Pending
    /\ controller_report' =
           LET audio == SelectSeq(output.streams, IsAudio)
           IN  [sync |-> check_audio_video_sync(
                             [ok |-> TRUE, streams |-> output.streams]),
                audio |-> check_audio_continuity(
                             [returncode |-> 0, raises |-> FALSE,
                              streams |-> Len(audio),
                              audio_duration |->
                                  IF audio = <<>> THEN 0 ELSE audio[1].duration,
                              format_duration |-> output.format_duration,
                              sample_rate |-> 48000, channels |-> 2])]
    /\ UNCHANGED <<ffmpeg_installed, variant_tracks,
                   apc, audio_urls, aidx, temp_audio_files,
                   temp_files, produced, output, trace, merged, aresult,
                   araised>>
    /\ AFrame

ANext ==
    \/ \E urls \in SeqsUpTo(AudioEntries, MaxTracks) :
          CallDownloadWithFfmpeg(urls)
    \/ \E tracks \in SeqsUpTo(PlaylistTracks, MaxTracks) : AutoDownload(tracks)
    \/ \E rc \in ExitCodes, out \in OutputFiles(0) \cup OutputFiles(1) :
          SingleExit(rc, out)
    \/ \E outcome \in ProbeOutcomes : SingleValidateExit(outcome)
    \/ \E rc \in ExitCodes, partial \in BOOLEAN : VideoExit(rc, partial)
    \/ \E rc \in ExitCodes, partial \in BOOLEAN : AudioExit(rc, partial)
    \/ \E rc \in ExitCodes, out \in MergedFiles : RemuxExit(rc, out)
    \/ \E outcome \in ProbeOutcomes : ValidateExit(outcome)
    \/ ProcessRaises
    \/ ValidateDownload

-----------------------------------------------------------------------------
(* Claims about download_with_ffmpeg *)

IsStart(e, tool) == e.tool = tool /\ e.ev = "start"
IsExit(e, tool) == e.tool = tool /\ e.ev = "exit"

\* The processes started so far, in order
Starts == SelectSeq(trace, LAMBDA e : e.ev = "start")

\* The order the processes of a separate-audio acquisition are to run in
ToolOrder ==
    <<<<"video", 0>>>>
    \o [i \in 1..Len(audio_urls) |-> <<"audio", i>>]
    \o <<<<"remux", 0>>, <<"validate", 0>>>>

\* C15: in a separate-audio acquisition the external processes run one at a
\* time in the order video, audio tracks in list order, remux, validation;
\* the remux starts only after the last audio download has exited and the
\* validation only after the remux exited with status 0.
C15_ToolOrder ==
    audio_urls # <<>> =>
        /\ Len(Starts) <= Len(ToolOrder)
        /\ \A k \in 1..Len(Starts) :
               <<Starts[k].tool, Starts[k].track>> = ToolOrder[k]
        /\ \A k \in 1..Len(trace) :
               /\ trace[k].ev = (IF k % 2 = 1 THEN "start" ELSE "exit")
               /\ k % 2 = 0 =>
                      /\ trace[k].tool = trace[k - 1].tool
                      /\ trace[k].track = trace[k - 1].track
               /\ IsStart(trace[k], "remux") =>
                      /\ k > 1
                      /\ IsExit(trace[k - 1], "audio")
                      /\ trace[k - 1].track = Len(audio_urls)
               /\ IsStart(trace[k], "validate") =>
                      /\ k > 1
                      /\ IsExit(trace[k - 1], "remux")
                      /\ trace[k - 1].rc = 0

C15_Witness ==
    /\ apc = "returned"
    /\ aresult = "true"
    /\ Len(audio_urls) = 2
    /\ Len(trace) = 10
    /\ IsExit(trace[10], "validate")

VideoFailed ==
    \E k \in 1..Len(trace) : IsExit(trace[k], "video") /\ trace[k].rc # 0

\* C16: if the video-only download exits non-zero the attempt is aborted
\* with failure: no audio download, no remux and no validation is started
\* and no output file is written.
C16_VideoFailureAborts ==
    VideoFailed =>
        /\ apc = "returned"
        /\ aresult = "false"
        /\ Len(trace) = 2
        /\ temp_audio_files = <<>>
        /\ ~output.exists
        /\ merged = Pending

C16_Witness ==
    /\ VideoFailed
    /\ apc = "returned"
    /\ Len(audio_urls) = 2
    /\ TempVideo \in temp_files

AudioExits == SelectSeq(trace, LAMBDA e : IsExit(e, "audio"))

\* The tracks whose download exited with status 0, in track order
Survivors ==
    LET ok == SelectSeq(AudioExits, LAMBDA e : e.rc = 0)
    IN  [i \in 1..Len(ok) |-> ok[i].track]

RemuxStarted == \E k \in 1..Len(trace) : IsStart(trace[k], "remux")

\* C17: a failed audio download drops that track alone: every track is
\* still downloaded, the remux still runs, its audio inputs are exactly the
\* tracks whose download succeeded, and it is the copy-through shape with
\* no surviving track and the multi-track shape otherwise.
C17_FailedTrackDropped ==
    /\ \A k \in 1..Len(trace) :
           IsStart(trace[k], "remux") =>
               /\ Len(AudioExits) = Len(audio_urls)
               /\ \A i \in 1..Len(AudioExits) : AudioExits[i].track = i
               /\ trace[k].inputs = Survivors
               /\ trace[k].shape =
                      (IF Survivors = <<>> THEN "copy" ELSE "multitrack")
    /\ (apc = "returned" /\ araised = "none" /\ AudioExits # <<>>)
           => RemuxStarted

C17_Witness ==
    /\ RemuxStarted
    /\ Len(audio_urls) = 2
    /\ AudioExits[1].rc # 0
    /\ Survivors = <<2>>
    /\ trace[Len(trace)].shape = "multitrack"

MergedValid == "valid" \in DOMAIN merged /\ merged.valid

\* C18: the temporary intermediates are deleted only when the validation of
\* the merged output passed; after every other outcome each intermediate
\* that was produced still exists.
C18_TempKeptUnlessValid ==
    /\ produced \ temp_files # {} => (MergedValid /\ aresult = "true")
    /\ (apc = "returned" /\ ~MergedValid) => produced \subseteq temp_files

C18_Witness ==
    /\ apc = "returned"
    /\ "valid" \in DOMAIN merged
    /\ merged.issues = <<"Audio/Video sync issue">>
    /\ produced = {TempVideo, TempAudio(1), TempAudio(2)}
    /\ produced \subseteq temp_files

OnlyTrackFailed ==
    /\ Len(audio_urls) = 1
    /\ AudioExits # <<>>
    /\ AudioExits[1].rc # 0
    /\ output.exists

\* C19: when the video download succeeds and the only audio track fails,
\* the remux runs with no audio input and no validation of the resulting
\* video-only file (the one in download_with_ffmpeg, the one run by the
\* retry controller) records the missing audio as an issue.
C19_VideoOnlyNotFailed ==
    (OnlyTrackFailed /\ "sync" \in DOMAIN controller_report) =>
        /\ AudioCount(output) = 0
        /\ "valid" \in DOMAIN merged
        /\ \A i \in 1..Len(merged.issues) :
               merged.issues[i] \in {"File too short", "ffprobe failed",
                                     "Validation error"}
        /\ ~Has(controller_report.sync.issues, "No audio stream found")
        /\ ~Has(controller_report.audio.issues,
                "No audio stream for continuity check")

\* C26: in the multi-track remux the audio inputs are mapped in input order
\* of the surviving tracks, exactly one video stream (of input 0) and one
\* audio stream per audio input are mapped, and the language metadata of
\* output audio stream k is the language recorded for the k-th surviving
\* track: no tag is shifted when an earlier track was dropped.
C26_RemuxMapping ==
    \A k \in 1..Len(trace) :
        (IsStart(trace[k], "remux") /\ trace[k].shape = "multitrack") =>
            LET n == Len(Survivors)
            IN  /\ trace[k].inputs = Survivors
                /\ Len(trace[k].maps) = n + 1
                /\ trace[k].maps[1] = [input |-> 0, stream |-> "v:0"]
                /\ \A i \in 1..n :
                       trace[k].maps[i + 1] = [input |-> i, stream |-> "a:0"]
                /\ Len(trace[k].languages) = n
                /\ \A i \in 1..n :
                       trace[k].languages[i] = Lang(audio_urls[Survivors[i]])

\* The first of two tracks is dropped and the second carries a language
C26_Witness ==
    /\ RemuxStarted
    /\ Len(audio_urls) = 2
    /\ Lang(audio_urls[1]) = UNDETERMINED
    /\ AudioExits[1].rc # 0
    /\ Survivors = <<2>>
    /\ trace[Len(trace)].languages = <<"en">>
    /\ Len(trace[Len(trace)].maps) = 2

\* The acquisition was triggered from a detected playlist with audio tracks
FromPlaylist == variant_tracks # <<>>

\* C27: for an acquisition triggered from a detected playlist, each audio
\* stream of the remuxed output is tagged with the language of the audio
\* track it was acquired from (the declared LANGUAGE, or 'und' only when the
\* track declared none).
C27_LanguageOfTrack ==
    \A k \in 1..Len(trace) :
        (FromPlaylist /\ IsStart(trace[k], "remux")) =>
            \A i \in 1..Len(trace[k].languages) :
                trace[k].languages[i] = variant_tracks[Survivors[i]].language

\* C28: when an audio track carries its own captured request headers, the
\* audio download of that track started from a detected playlist sends the
\* track's headers (filtered like the video headers), not the headers of
\* the video request; those are sent only for tracks without their own.
C28_HeadersOfTrack ==
    \A k \in 1..Len(trace) :
        (FromPlaylist /\ IsStart(trace[k], "audio")) =>
            trace[k].headers =
                HeadersStr(IF "headers" \in DOMAIN variant_tracks[trace[k].track]
                           THEN variant_tracks[trace[k].track].headers
                           ELSE VideoRequestHeaders)

\* The Validation Engine's sync check on the streams of the written output
EngineSyncPasses ==
    ~Has(check_audio_video_sync([ok |-> TRUE, streams |-> output.streams]).issues,
         "Audio/Video sync mismatch")

\* validate_merged_file has run on the remuxed output
Validated ==
    /\ output.exists
    /\ "issues" \in DOMAIN merged
    /\ \E k \in 1..Len(trace) : IsExit(trace[k], "remux")

\* C33: the orchestrator's VALIDATE step and the Validation Engine agree on
\* sync: an output that the engine's sync check passes (the durations of the
\* video and of the first audio stream differ by at most 2.0 s) is not
\* rejected for an audio/video sync issue by validate_merged_file.
C33_SyncAgreement ==
    (Validated /\ EngineSyncPasses) =>
        ~Has(merged.issues, "Audio/Video sync issue")

-----------------------------------------------------------------------------
(* Claims about the artifact the retry controller validates *)

\* The files that appeared in downloads/ during the current attempt
AppearedFiles == {f \in files : f.name \in NewFiles(Glob(files), files_before)}

\* C23: after a successful downloader run the validated artifact is the
\* newest output: a file that appeared during this attempt and, when several
\* appeared, the most recently modified of them; only when none appeared is
\* the most recently modified existing .mp4 used.
C23_NewestArtifact ==
    pc = "validating" =>
        video_path = IF AppearedFiles # {} THEN FindLatest(AppearedFiles)
                     ELSE FindLatest(files)

\* C24: whenever the acquisition inside the downloader fails (the video
\* acquisition or the remux exits non-zero, or the validation of the output
\* rejects it), the retry controller treats the attempt as an acquisition
\* failure: it validates no artifact for that attempt, the attempt counts
\* toward the retry budget, and it retries while attempts remain.
C24_FailedAcquisitionNotValidated ==
    acquisition_failed =>
        /\ pc # "validating"
        /\ \A i \in 1..Len(history) :
              history[i].attempt = attempt => ~history[i].found

\* C25: every run of the retry controller eventually terminates: each
\* downloader run it launches exits once its acquisition has finished, each
\* validation run exits, and after at most max_retries attempts
\* run_test_cycle returns.
C25_ControllerTerminates == <>(pc = "exited")

-----------------------------------------------------------------------------
(* Claims about the retry controller and a missing ffmpeg *)

\* C20: a missing ffmpeg binary is fatal and not retried: after the attempt
\* whose downloader found it missing the retry controller starts no further
\* download, whatever is left of its attempt budget.
C20_ToolMissingNotRetried ==
    tool_missing_at # 0 => launches <= tool_missing_at

-----------------------------------------------------------------------------
(* validate_download and check_validation_result of the retry controller.   *)
(* A file name is the list of its parts; a report file is named after the   *)
(* stem of the video, the time it was written and '_validation.json'.       *)

MaxValidations == 2
MaxOldReports == 1

\* The stems of video files in downloads/
Stems == {<<"Show">>, <<"Show", "2">>, <<"Clip">>}

NoStem == <<>>
NoReport == [name |-> NoStem]

\* str.startswith
IsPrefix(a, b) == Len(a) <= Len(b) /\ SubSeq(b, 1, Len(a)) = a

\* json_file of save_report: named after Path(results['file']).stem, holding
\* results['summary']
Report(video_name, mtime, results) ==
    [name |-> video_name, mtime |-> mtime, content |-> results]

\* summary of comprehensive_validation
Summary(all_valid) ==
    [parsable |-> TRUE, all_tests_passed |-> all_valid,
     total_issues |-> IF all_valid THEN 0 ELSE 1]

\* A file that json.loads rejects
Garbage == [parsable |-> FALSE]

\* The time of the validation run of attempt k; the reports of earlier
\* sessions are older
WrittenAt(k) == k

\* What a run of continuous_validator.py leaves: a report of a passing or of
\* a failing validation, or none (it exited before save_report)
ValidatorOutcomes == {"pass", "fail", "none"}

Written(video_name, k, outcome) ==
    IF outcome = "none" THEN {}
    ELSE {Report(video_name, WrittenAt(k), Summary(outcome = "pass"))}

\* validation_reports/ at the start of the controller
OldReports ==
    {rs \in SUBSET [name : Stems, mtime : {WrittenAt(0)},
                    content : {Summary(TRUE), Summary(FALSE), Garbage}] :
        Cardinality(rs) <= MaxOldReports}

\* self.reports_dir.glob(f"{video_stem}*_validation.json")
GlobReports_exact(video_stem, dir) == {r \in dir : r.name = video_stem}
GlobReports(video_stem, dir) == {r \in dir : IsPrefix(video_stem, r.name)}

\* reports.sort(key=st_mtime, reverse=True); reports[0]: one of the newest
LatestReports(reports) ==
    {r \in reports : \A q \in reports : q.mtime <= r.mtime}

\* return all_passed and total_issues == 0; False on an exception
ReadVerdict(report) ==
    /\ report.content.parsable
    /\ report.content.all_tests_passed
    /\ report.content.total_issues = 0

\* check_validation_result: the report it reads and what it returns
check_validation_result(video_stem, dir, latest_report) ==
    IF GlobReports(video_stem, dir) = {}
    THEN [used |-> NoReport, passed |-> FALSE]
    ELSE [used |-> latest_report, passed |-> ReadVerdict(latest_report)]

CIdle ==
    /\ cpc = "idle" /\ cattempt = 0 /\ cartifact = NoStem
    /\ reports_dir = {} /\ decisions = <<>>

CInit ==
    /\ cpc = "loop" /\ cattempt = 0 /\ cartifact = NoStem
    /\ reports_dir \in OldReports /\ decisions = <<>>

\* The artifacts of the attempts so far
Artifacts == {decisions[i].artifact : i \in 1..Len(decisions)}

\* The next attempt of run_test_cycle up to validate_download: the download
\* succeeded and video_path is a file that was not there before
Located(video_stem) ==
    /\ cpc = "loop"
    /\ cattempt < MaxValidations
    /\ video_stem \notin Artifacts
    /\ cattempt' = cattempt + 1
    /\ cartifact' = video_stem
    /\ cpc' = "validating"
    /\ UNCHANGED <<reports_dir, decisions>>
    /\ CFrame

\* The validator process exited: check_validation_result reads the latest
\* matching report, and run_test_cycle returns True, or renames the artifact
\* and goes on, or returns False after the last attempt
ValidatorExit(outcome) ==
    /\ cpc = "validating"
    /\ reports_dir' = reports_dir \cup Written(cartifact, cattempt, outcome)
    /\ \E latest_report \in
              IF GlobReports(cartifact, reports_dir') = {} THEN {NoReport}
              ELSE LatestReports(GlobReports(cartifact, reports_dir')) :
          LET checked == check_validation_result(cartifact, reports_dir',
                                                 latest_report)
          IN  /\ decisions' =
                    Append(decisions,
                           [attempt |-> cattempt, artifact |-> cartifact,
                            wrote |-> outcome # "none",
                            used |-> checked.used,
                            passed |-> checked.passed])
              /\ cpc' = IF checked.passed THEN "success"
                        ELSE IF cattempt < MaxValidations THEN "loop"
                        ELSE "failed"
    /\ UNCHANGED <<cattempt, cartifact>>
    /\ CFrame

CNext ==
    \/ \E video_stem \in Stems : Located(video_stem)
    \/ \E outcome \in ValidatorOutcomes : ValidatorExit(outcome)

-----------------------------------------------------------------------------
(* Claims about the verdict the retry controller decides on *)

\* The report the validation run of a decision wrote for its artifact
OwnReport(d) ==
    d.wrote /\ d.used.name = d.artifact /\ d.used.mtime = WrittenAt(d.attempt)

\* C36: the verdict on which the retry controller decides attempt k is the
\* one produced by attempt k's validation run on attempt k's artifact: it
\* never declares success on the basis of a report written for another file
\* or by an earlier validation run.
C36_OwnVerdict ==
    \A i \in 1..Len(decisions) : decisions[i].passed => OwnReport(decisions[i])

\* A report of the artifact of a decision exists and can be parsed
ReportOfArtifact(d) ==
    \E r \in reports_dir : r.name = d.artifact /\ r.content.parsable

\* C39: if after a validation run no validation report for the artifact can
\* be found, or the report cannot be read or parsed, the retry controller
\* treats the attempt as a validation failure, never as a pass.
C39_NoReportFails ==
    \A i \in 1..Len(decisions) :
        ~ReportOfArtifact(decisions[i]) => ~decisions[i].passed

-----------------------------------------------------------------------------
(* monitor_downloads: the monitoring mode of continuous_validator.py.  The  *)
(* loop is one task; it gives way at each sleep and during a validation,    *)
(* and the downloader writes and removes files meanwhile.                   *)

MaxSize == 2
MaxRuns == 2

\* The *.mp4 paths of downloads/
Paths == {"a.mp4", "b.mp4"}

\* No file at the path
Missing == -1

\* self.downloads_dir.glob("*.mp4")
Mp4Files(dir) == {f \in DOMAIN dir : dir[f] # Missing}

\* [f for f in mp4_files if f not in self.validated_files]
NewDownloads_all(mp4_files, validated) == mp4_files
NewDownloads(mp4_files, validated) == mp4_files \ validated

\* The orders in which glob gives a set of paths
Orders(S) ==
    {o \in [1..Cardinality(S) -> S] : \A i, j \in DOMAIN o : i # j => o[i] # o[j]}

\* size1 == size2 and size2 > 0
Stable(s1, s2) == s1 = s2 /\ s2 > 0

WIdle ==
    /\ wpc = "idle" /\ downloads = <<>> /\ validated_files = {}
    /\ cycle_files = <<>> /\ widx = 0 /\ size1 = 0 /\ runs = <<>>
    /\ saved = {} /\ skipped = {} /\ due = {}

WInit ==
    /\ wpc = "scan"
    /\ downloads \in [Paths -> {Missing, 0, MaxSize}]
    /\ validated_files = {}
    /\ cycle_files = <<>> /\ widx = 0 /\ size1 = 0
    /\ runs = [f \in Paths |-> 0]
    /\ saved = {} /\ skipped = {} /\ due = {}

video_file == cycle_files[widx]

\* The for loop goes to its next file, or the cycle ends at
\* asyncio.sleep(interval)
NextFile ==
    IF widx < Len(cycle_files)
    THEN widx' = widx + 1 /\ wpc' = "sleep1"
    ELSE widx' = 0 /\ wpc' = "interval"

\* The top of the while loop up to the first sleep
Scan ==
    /\ wpc = "scan"
    /\ \E new_files \in Orders(NewDownloads(Mp4Files(downloads), validated_files)) :
          /\ cycle_files' = new_files
          /\ IF new_files = <<>>
             THEN widx' = 0 /\ wpc' = "interval"
             ELSE widx' = 1 /\ wpc' = "sleep1"
    /\ due' = skipped \cap Mp4Files(downloads)
    /\ skipped' = {}
    /\ UNCHANGED <<downloads, validated_files, size1, runs, saved>>
    /\ WFrame

\* After the first sleep: size1 = video_file.stat().st_size; stat raises
\* when the file is gone, and the exception ends the monitor
Sample1 ==
    /\ wpc = "sleep1"
    /\ IF downloads[video_file] = Missing
       THEN wpc' = "raised" /\ UNCHANGED size1
       ELSE wpc' = "sleep2" /\ size1' = downloads[video_file]
    /\ UNCHANGED <<downloads, validated_files, cycle_files, widx, runs, saved,
                   skipped, due>>
    /\ WFrame

\* After the second sleep: size2; a stable file goes into
\* comprehensive_validation, any other is left for a later cycle
Sample2 ==
    /\ wpc = "sleep2"
    /\ IF downloads[video_file] = Missing
       THEN wpc' = "raised" /\ UNCHANGED <<widx, runs, skipped>>
       ELSE IF Stable(size1, downloads[video_file])
       THEN /\ runs[video_file] < MaxRuns
            /\ runs' = [runs EXCEPT ![video_file] = @ + 1]
            /\ wpc' = "validating"
            /\ UNCHANGED <<widx, skipped>>
       ELSE /\ skipped' = skipped \cup {video_file}
            /\ NextFile
            /\ UNCHANGED runs
    /\ UNCHANGED <<downloads, validated_files, cycle_files, size1, saved, due>>
    /\ WFrame

\* comprehensive_validation returned: save_report, validated_files.add
FileValidated ==
    /\ wpc = "validating"
    /\ saved' = saved \cup {video_file}
    /\ validated_files' = validated_files \cup {video_file}
    /\ NextFile
    /\ UNCHANGED <<downloads, cycle_files, size1, runs, skipped, due>>
    /\ WFrame

\* comprehensive_validation or save_report raised: the monitor ends
ValidationRaises ==
    /\ wpc = "validating"
    /\ wpc' = "raised"
    /\ UNCHANGED <<downloads, validated_files, cycle_files, widx, size1, runs,
                   saved, skipped, due>>
    /\ WFrame

\* asyncio.sleep(interval) is over
IntervalOver ==
    /\ wpc = "interval"
    /\ wpc' = "scan"
    /\ UNCHANGED <<downloads, validated_files, cycle_files, widx, size1, runs,
                   saved, skipped, due>>
    /\ WFrame

\* except KeyboardInterrupt
KeyboardInterrupt ==
    /\ wpc \in {"sleep1", "sleep2", "validating", "interval"}
    /\ wpc' = "stopped"
    /\ UNCHANGED <<downloads, validated_files, cycle_files, widx, size1, runs,
                   saved, skipped, due>>
    /\ WFrame

\* A downloader creates the file or writes more of it
FileWritten(f) ==
    /\ wpc \in {"sleep1", "sleep2", "validating", "interval"}
    /\ downloads[f] < MaxSize
    /\ downloads' = [downloads EXCEPT ![f] = @ + 1]
    /\ UNCHANGED <<wpc, validated_files, cycle_files, widx, size1, runs, saved,
                   skipped, due>>
    /\ WFrame

\* The file is removed or renamed
FileRemoved(f) ==
    /\ wpc \in {"sleep1", "sleep2", "validating", "interval"}
    /\ downloads[f] # Missing
    /\ downloads' = [downloads EXCEPT ![f] = Missing]
    /\ UNCHANGED <<wpc, validated_files, cycle_files, widx, size1, runs, saved,
                   skipped, due>>
    /\ WFrame

WNext ==
    \/ Scan
    \/ Sample1
    \/ Sample2
    \/ FileValidated
    \/ ValidationRaises
    \/ IntervalOver
    \/ KeyboardInterrupt
    \/ \E f \in Paths : FileWritten(f)
    \/ \E f \in Paths : FileRemoved(f)

-----------------------------------------------------------------------------
(* Claims about monitor_downloads *)

\* The files of the current cycle, as a set
CycleFiles == {cycle_files[i] : i \in 1..Len(cycle_files)}

\* C37: in monitoring mode each file path is validated at most once over the
\* life of the monitor: a path is in validated_files only after its
\* comprehensive validation ran and its report was saved, a path in
\* validated_files is not validated again, and a file whose size is zero or
\* changed between the two size samples is neither validated nor marked in
\* that cycle and is among the files of the next cycle.
C37_ValidatedOnce ==
    /\ \A f \in DOMAIN runs : runs[f] <= 1
    /\ \A f \in validated_files : runs[f] = 1 /\ f \in saved
    /\ \A f \in skipped : f \notin validated_files /\ runs[f] = 0
    /\ due \subseteq CycleFiles

\* A second cycle runs after a file was validated and marked in the first
\* and another was left out for its size
C37_Witness ==
    /\ validated_files # {}
    /\ due # {}
    /\ wpc = "sleep1"

-----------------------------------------------------------------------------
(* validate_video_file of video_validator.py *)

MaxFileStreams == 2

USUAL_VIDEO_CODECS == {"h264", "hevc", "h265", "vp9", "av1"}
USUAL_FILE_AUDIO_CODECS == {"aac", "mp3", "ac3", "eac3", "opus"}

\* The warnings of the loop over video_info['streams'], in stream order
RECURSIVE StreamWarnings(_)
StreamWarnings(streams) ==
    IF streams = <<>> THEN <<>>
    ELSE LET stream == streams[1]
             here ==
                 IF stream.codec_type = "video"
                 THEN (IF stream.codec_name \notin USUAL_VIDEO_CODECS
                       THEN <<"Unusual video codec">> ELSE <<>>)
                      \o (IF stream.attached_pic
                          THEN <<"Video stream marked as attached picture">>
                          ELSE <<>>)
                 ELSE IF stream.codec_type = "audio"
                           /\ stream.codec_name \notin USUAL_FILE_AUDIO_CODECS
                 THEN <<"Unusual audio codec">>
                 ELSE <<>>
         IN  here \o StreamWarnings(Tail(streams))

\* validate_video_streams, with 'valid' of a file without audio false
validate_video_streams_audio(video_info) ==
    IF ~video_info.has_streams
    THEN [valid |-> FALSE, issues |-> <<"No streams found in video">>,
          warnings |-> <<>>]
    ELSE LET has_video == HasType(video_info.streams, "video")
             has_audio == HasType(video_info.streams, "audio")
             issues == IF ~has_video THEN <<"No video stream found">> ELSE <<>>
             warnings ==
                 StreamWarnings(video_info.streams)
                 \o (IF ~has_audio THEN <<"No audio stream found">> ELSE <<>>)
         IN  [valid |-> Len(issues) = 0 /\ has_audio,
              has_video |-> has_video, has_audio |-> has_audio,
              issues |-> issues, warnings |-> warnings]

validate_video_streams(video_info) ==
    IF ~video_info.has_streams
    THEN [valid |-> FALSE, issues |-> <<"No streams found in video">>,
          warnings |-> <<>>]
    ELSE LET has_video == HasType(video_info.streams, "video")
             has_audio == HasType(video_info.streams, "audio")
             issues == IF ~has_video THEN <<"No video stream found">> ELSE <<>>
             warnings ==
                 StreamWarnings(video_info.streams)
                 \o (IF ~has_audio THEN <<"No audio stream found">> ELSE <<>>)
         IN  [valid |-> Len(issues) = 0,
              has_video |-> has_video, has_audio |-> has_audio,
              issues |-> issues, warnings |-> warnings]

\* check_video_corruption of video_validator.py: errors is what ffmpeg wrote
\* to stderr, stripped
check_file_corruption(decode) ==
    IF decode.raises
    THEN [valid |-> FALSE, issues |-> <<"Error checking corruption">>,
          warnings |-> <<>>]
    ELSE [valid |-> decode.errors = "",
          issues |-> IF decode.errors # ""
                     THEN <<"Video corruption detected">> ELSE <<>>,
          warnings |-> <<>>]

\* validation_result cut short by return
Rejected(issue) ==
    [valid |-> FALSE, all_issues |-> <<issue>>, all_warnings |-> <<>>,
     tests |-> <<>>]

\* No validation_result: an exception left validate_video_file
Raised == [raised |-> TRUE]

validate_video_file(a) ==
    IF ~a.exists_at_stat THEN Raised
    ELSE IF ~a.exists_at_test THEN Rejected("File does not exist")
    ELSE IF a.size = 0 THEN Rejected("File is empty (0 bytes)")
    ELSE IF ~a.video_info.ok THEN Rejected("Could not read video metadata")
    ELSE LET stream_validation == validate_video_streams(a.video_info)
             duration_validation ==
                 validate_duration(a.video_info, a.expected_duration,
                                   DEFAULT_TOLERANCE_PERCENT)
             corruption_check == check_file_corruption(a.decode)
             ran == <<stream_validation, duration_validation,
                      corruption_check>>
         IN  IF a.details_raise THEN Raised
             ELSE [valid |-> \A i \in 1..3 : ran[i].valid,
                   all_issues |-> ran[1].issues \o ran[2].issues
                                  \o ran[3].issues,
                   all_warnings |-> ran[1].warnings \o ran[2].warnings
                                    \o ran[3].warnings,
                   tests |-> ran]

\* ---- inputs ----

FileStreams ==
    {[codec_type |-> "video", codec_name |-> "h264", attached_pic |-> FALSE],
     [codec_type |-> "video", codec_name |-> "mjpeg", attached_pic |-> TRUE],
     [codec_type |-> "audio", codec_name |-> "aac", attached_pic |-> FALSE],
     [codec_type |-> "audio", codec_name |-> "flac", attached_pic |-> FALSE],
     [codec_type |-> "subtitle", codec_name |-> "srt", attached_pic |-> FALSE]}

\* What get_video_info returns: None, or ffprobe's JSON
VideoInfos ==
    {[ok |-> FALSE, has_streams |-> FALSE, streams |-> <<>>,
      has_format |-> FALSE, duration |-> 0]}
    \cup [ok : {TRUE}, has_streams : {TRUE},
          streams : SeqsUpTo(FileStreams, MaxFileStreams),
          has_format : BOOLEAN, duration : {0, 30, 100}]
    \cup [ok : {TRUE}, has_streams : {FALSE}, streams : {<<>>},
          has_format : BOOLEAN, duration : {0, 30, 100}]

ExpectedDurations ==
    {NoDuration, [known |-> TRUE, seconds |-> 30],
     [known |-> TRUE, seconds |-> 100]}

Decodes ==
    {[raises |-> TRUE, errors |-> ""], [raises |-> FALSE, errors |-> ""],
     [raises |-> FALSE, errors |-> "Invalid NAL unit"]}

FIdle == file_args = Pending /\ file_result = Pending

FInit ==
    /\ file_args \in [exists_at_stat : BOOLEAN, exists_at_test : BOOLEAN,
                      size : {0, 1}, video_info : VideoInfos,
                      expected_duration : ExpectedDurations,
                      decode : Decodes, details_raise : BOOLEAN]
    /\ file_args.exists_at_test => file_args.exists_at_stat
    /\ file_result = Pending

ValidateVideoFile ==
    /\ file_result = Pending
    /\ file_result' = validate_video_file(file_args)
    /\ UNCHANGED file_args
    /\ FFrame

-----------------------------------------------------------------------------
(* Claims about validate_video_file *)

HasResult == file_result # Pending /\ file_result # Raised

\* C38: for every result of validate_video_file, valid is true iff
\* all_issues is empty: every path that sets valid to false also records at
\* least one issue, and warnings alone never set valid to false.
C38_ValidIffNoIssues ==
    HasResult => (file_result.valid <=> file_result.all_issues = <<>>)

\* A container with video but no audio stream stays valid with a warning
C38_Witness ==
    /\ HasResult
    /\ file_result.valid
    /\ Has(file_result.all_warnings, "No audio stream found")

RIdle ==
    /\ argc = 0 /\ pc = "idle" /\ max_retries = 0 /\ attempt = 0
    /\ files = {} /\ files_before = {} /\ video_path = NoPath /\ clock = 0
    /\ result = "none" /\ exit_code = -1 /\ launches = 0
    /\ history = <<>> /\ renamed = <<>> /\ tool_missing_at = 0
    /\ acquisition_failed = FALSE
    /\ slept = 0

\* The retry controller
Init ==
    /\ RInit /\ SIdle /\ DIdle /\ VIdle /\ PIdle /\ MIdle /\ HIdle /\ CIdle
    /\ WIdle /\ FIdle
    /\ ffmpeg_installed \in BOOLEAN /\ AQuiet
Next == RNext
Spec == Init /\ [][Next]_vars

\* The retry controller with the steps the programs take by themselves: the
\* controller is sequential, the event loop of the downloader runs its
\* sleeping loop, and a validation run ends.  The end of the downloader is
\* not among them: it takes an interrupt from outside.
Fairness ==
    /\ WF_vars(MainUsage) /\ WF_vars(MainBadArgument)
    /\ WF_vars(\E n \in -1..MaxRetries : MainStart(n))
    /\ WF_vars(StartAttempt)
    /\ WF_vars(MonitorSleep)
    /\ WF_vars(\E passed \in BOOLEAN : ValidationExit(passed))
    /\ WF_vars(MainExit)
SpecLive == Init /\ [][Next]_vars /\ Fairness

\* The sync check on every probe result
SyncInit == SInit /\ RIdle /\ DIdle /\ VIdle /\ PIdle /\ MIdle /\ AIdle /\ HIdle /\ CIdle /\ WIdle /\ FIdle
SyncNext == SyncCheck
SpecSync == SyncInit /\ [][SyncNext]_vars

\* The duration check on every probe result and playlist
DurationInit == DInit /\ RIdle /\ SIdle /\ VIdle /\ PIdle /\ MIdle /\ AIdle /\ HIdle /\ CIdle /\ WIdle /\ FIdle
DurationNext == DurationCheck
SpecDuration == DurationInit /\ [][DurationNext]_vars

\* One run of comprehensive_validation
ValidationInit == VInit /\ RIdle /\ SIdle /\ DIdle /\ PIdle /\ MIdle /\ AIdle /\ HIdle /\ CIdle /\ WIdle /\ FIdle
ValidationNext == VNext
SpecValidation == ValidationInit /\ [][ValidationNext]_vars

\* parse_master_playlist on every playlist text
ParseInit == PInit /\ RIdle /\ SIdle /\ DIdle /\ VIdle /\ MIdle /\ AIdle /\ HIdle /\ CIdle /\ WIdle /\ FIdle
ParseNext == ParseMasterPlaylist
SpecParse == ParseInit /\ [][ParseNext]_vars

\* The monitor_network tasks of overlapping responses
MonitorInit == MInit /\ RIdle /\ SIdle /\ DIdle /\ VIdle /\ PIdle /\ AIdle /\ HIdle /\ CIdle /\ WIdle /\ FIdle
MonitorNext == MNext
SpecMonitor == MonitorInit /\ [][MonitorNext]_vars

\* One call of download_with_ffmpeg and the validation run after it
AcquireInit == AInit /\ RIdle /\ SIdle /\ DIdle /\ VIdle /\ PIdle /\ MIdle /\ HIdle /\ CIdle /\ WIdle /\ FIdle
AcquireNext == ANext
SpecAcquire == AcquireInit /\ [][AcquireNext]_vars

\* The header block of every header map
HeadersInit == HInit /\ RIdle /\ SIdle /\ DIdle /\ VIdle /\ PIdle /\ MIdle /\ AIdle /\ CIdle /\ WIdle /\ FIdle
HeadersNext == BuildHeaders
SpecHeaders == HeadersInit /\ [][HeadersNext]_vars

\* The validation runs of the retry controller and the reports it reads
VerdictInit == CInit /\ RIdle /\ SIdle /\ DIdle /\ VIdle /\ PIdle /\ MIdle /\ AIdle /\ HIdle /\ WIdle /\ FIdle
VerdictNext == CNext
SpecVerdict == VerdictInit /\ [][VerdictNext]_vars

\* The monitoring mode of the validator
WatchInit == WInit /\ RIdle /\ SIdle /\ DIdle /\ VIdle /\ PIdle /\ MIdle /\ AIdle /\ HIdle /\ CIdle /\ FIdle
WatchNext == WNext
SpecWatch == WatchInit /\ [][WatchNext]_vars

\* validate_video_file on every file
FileInit == FInit /\ RIdle /\ SIdle /\ DIdle /\ VIdle /\ PIdle /\ MIdle /\ AIdle /\ HIdle /\ CIdle /\ WIdle
FileNext == ValidateVideoFile
SpecFile == FileInit /\ [][FileNext]_vars

=============================================================================
